---- MODULE Spec2Model ----
(***************************************************************************)
(* Verification model of the Pinfairy content-extraction engine and its    *)
(* resilience layer (src/services/pinterest.py, src/services/database.py,  *)
(* src/modules/pinterest.py).                                              *)
(*                                                                         *)
(* The module holds several specifications over one set of variables:      *)
(*   SpecCircuit : RetryMixin (retry_with_backoff and the circuit breaker) *)
(*   SpecCacheManager : CacheManager.get / set                             *)
(*   SpecTwoTier : PinterestService._get_cached_data / _set_cached_data    *)
(*                 over CacheManager and DatabaseService.get/set_cache     *)
(*   SpecNorm : PinterestService._clean_and_deduplicate_urls               *)
(*   SpecBoard : PinterestService.get_board_pins and the legacy            *)
(*               get_all_pins_with_pagination; FairSpecBoard adds fairness *)
(*               and SpecScenario fixes the board's documents              *)
(*   SpecVideo : _find_best_video_url and the legacy find_best_video_url   *)
(*   SpecPhoto : PinterestService.get_photo_data and the legacy            *)
(*               get_pinterest_photo_data                                  *)
(*   SpecPools : ConnectionPool and the page pool of BrowserManager        *)
(*   SpecService : concurrent calls through the global pinterest_service   *)
(*   SpecFetch : board calls and photo calls over the same cache tiers     *)
(*   SpecLimiter : PinterestService._rate_limit_check                      *)
(* Each specification moves only its own variables; the others keep their  *)
(* initial value.                                                          *)
(***************************************************************************)
EXTENDS Integers, Sequences, FiniteSets, TLC

VARIABLES
    now,                 \* time.time(), in seconds
    failure_counts,      \* RetryMixin._failure_counts  : dict key -> int
    last_failure_times,  \* RetryMixin._last_failure_times : dict key -> time
    calls,               \* one retry_with_backoff activation per caller
    streak,              \* history: consecutive transient failures per key
    cache,               \* CacheManager._cache : dict key -> data
    cache_times,         \* CacheManager._cache_times : dict key -> time
    db_cache,            \* rows of the database table cache: key -> row
    cm_last,             \* history: the last cache operation and its result
    deadline,            \* history: latest t + ttl of each stored (key, value)
    norm_in,             \* urls handed to _clean_and_deduplicate_urls
    norm_out,            \* the list it returned
    norm_pc,             \* "ready" before the call, "done" after it
    board,               \* the board call in progress, or the last one's result
    video,               \* the Video URL Hunter: its input and what it returned
    photo,               \* the photo call in progress, or the last one's result
    pools,               \* ConnectionPool._clients, BrowserManager._page_pool
    service,             \* the global pinterest_service and its callers
    limiter,             \* _last_request_times and the tasks in _rate_limit_check
    cache_len,           \* len(CacheManager._cache) of a cache filled to its limit
    board_len,           \* len(all_image_urls) along a board call
    db_pool              \* the database ConnectionPool and the tasks using it

circuitVars == <<failure_counts, last_failure_times, calls, streak>>

cacheVars == <<cache, cache_times, db_cache, cm_last, deadline>>

normVars == <<norm_in, norm_out, norm_pc>>

boardVars == <<board>>

\* variables of the specifications of single functions and components
extraVars ==
    <<video, photo, pools, service, limiter, cache_len, board_len, db_pool>>

vars == <<now, circuitVars, cacheVars, normVars, boardVars, extraVars>>

\* variables a specification leaves alone
notCircuit == <<cacheVars, normVars, boardVars, extraVars>>

notCache == <<circuitVars, normVars, boardVars, extraVars>>

notNorm == <<now, circuitVars, cacheVars, boardVars, extraVars>>

notVideo ==
    <<now, circuitVars, cacheVars, normVars, boardVars, photo, pools, service,
      limiter, cache_len, board_len, db_pool>>

notPhoto ==
    <<now, calls, streak, cm_last, deadline, normVars, boardVars, video, pools,
      service, limiter, cache_len, board_len, db_pool>>

notPools ==
    <<now, circuitVars, cacheVars, normVars, boardVars, video, photo, service,
      limiter, cache_len, board_len, db_pool>>

notService ==
    <<now, circuitVars, cacheVars, normVars, boardVars, video, photo, pools,
      limiter, cache_len, board_len, db_pool>>

notLimiter ==
    <<circuitVars, cacheVars, normVars, boardVars, video, photo, pools, service,
      cache_len, board_len, db_pool>>

notCacheLen ==
    <<now, circuitVars, cacheVars, normVars, boardVars, video, photo, pools,
      service, limiter, board_len, db_pool>>

notBoardLen ==
    <<now, circuitVars, cacheVars, normVars, boardVars, video, photo, pools,
      service, limiter, cache_len, db_pool>>

notDbPool ==
    <<now, circuitVars, cacheVars, normVars, boardVars, video, photo, pools,
      service, limiter, cache_len, board_len>>

(***************************************************************************)
(* Python dict helpers                                                     *)
(***************************************************************************)
EmptyDict == [x \in {} |-> 0]

DictGet(d, k, default) == IF k \in DOMAIN d THEN d[k] ELSE default

DictSet(d, k, v) == [x \in (DOMAIN d) \cup {k} |-> IF x = k THEN v ELSE d[x]]

DictDel(d, k) == [x \in (DOMAIN d) \ {k} |-> d[x]]

Min(a, b) == IF a < b THEN a ELSE b

RECURSIVE Pow2(_)
Pow2(n) == IF n = 0 THEN 1 ELSE 2 * Pow2(n - 1)

(***************************************************************************)
(* Bounds of the model                                                     *)
(***************************************************************************)
MaxTime == 450          \* the clock stops advancing here

CircuitProcs == {1}     \* callers of retry_with_backoff in SpecCircuit

Keys == {"k1", "k2"}    \* circuit keys (func.__name__ + hash of args)

TickSet == {150}        \* amounts by which time passes between steps

RetrySet == {1, 2, 3}   \* max_retries values passed by callers

\* the exceptions retry_with_backoff retries
TransientErrors == {"ConnectTimeout", "ReadTimeout", "NetworkError"}

Results == {"r1", "r2"} \* values the wrapped operation returns

(***************************************************************************)
(* Program constants                                                       *)
(***************************************************************************)
MAX_RETRY_ATTEMPTS == 3

RETRY_DELAY_BASE == 1

circuit_breaker_threshold == 5

circuit_breaker_timeout == 300

MaxDelay == 60

(***************************************************************************)
(* RetryMixin                                                              *)
(***************************************************************************)
\* _is_circuit_open, the value it returns
\* (variant: the cool-down is never taken into account)
IsCircuitOpenNoCooldown(fc, lft, k, t) ==
    /\ k \in DOMAIN fc
    /\ fc[k] >= circuit_breaker_threshold

IsCircuitOpen(fc, lft, k, t) ==
    /\ k \in DOMAIN fc
    /\ fc[k] >= circuit_breaker_threshold
    /\ t - DictGet(lft, k, 0) < circuit_breaker_timeout

\* _is_circuit_open, its side effect: the counter is reset to 0 when the
\* threshold was reached and the cool-down has elapsed
\* (variant: the counter is reset whenever the threshold was reached)
CircuitCheckCountsOnReject(fc, lft, k, t) ==
    IF /\ k \in DOMAIN fc
       /\ fc[k] >= circuit_breaker_threshold
    THEN DictSet(fc, k, 0)
    ELSE fc

CircuitCheckCounts(fc, lft, k, t) ==
    IF /\ k \in DOMAIN fc
       /\ fc[k] >= circuit_breaker_threshold
       /\ ~ (t - DictGet(lft, k, 0) < circuit_breaker_timeout)
    THEN DictSet(fc, k, 0)
    ELSE fc

\* _record_failure
RecordFailureCounts(fc, k) == DictSet(fc, k, DictGet(fc, k, 0) + 1)

RecordFailureTimes(lft, k, t) == DictSet(lft, k, t)

\* _record_success
RecordSuccess(d, k) == DictDel(d, k)

\* delay = min(base_delay * (2 ** attempt), 60)
BackoffDelay(base_delay, attempt) == Min(base_delay * Pow2(attempt), MaxDelay)

\* what a caller saw when it entered retry_with_backoff (history)
EntryView(fc, lft, k, t) ==
    IF k \notin DOMAIN fc THEN "norecord"
    ELSE IF fc[k] < circuit_breaker_threshold THEN "closed"
    ELSE IF t - DictGet(lft, k, 0) < circuit_breaker_timeout THEN "open"
    ELSE "cooled"

NoOp ==
    [op |-> "none", key |-> "none", value |-> "None", ttl |-> 0, at |-> 0,
     had |-> FALSE, age |-> 0, after_set |-> FALSE, set_value |-> "None"]

\* (variant: the first network error is the one kept)
LastExceptionFirst(prev, e) == IF prev = "None" THEN e ELSE prev

\* last_exception = e
LastException(prev, e) == e

\* the locals of a call (attempt, last_exception), what it did (invoked, slept,
\* transients: network errors caught, func_raised: the exception of the latest
\* invocation), how it ended (outcome, raised, returned) and, as history,
\* after_failed_trial: the call before it on the same key was a failed
\* half-open trial, less than the cool-down ago
IdleCall ==
    [pc |-> "idle", key |-> "k1", max_retries |-> MAX_RETRY_ATTEMPTS,
     attempt |-> 0, invoked |-> 0, slept |-> 0, wake_at |-> 0,
     outcome |-> "none", last_error |-> "none", entry |-> "none",
     entry_tripped |-> FALSE, last_exception |-> "None", transients |-> 0,
     func_raised |-> "None", raised |-> "None", returned |-> "None",
     after_failed_trial |-> FALSE]

\* the circuit breaker of a freshly constructed RetryMixin
CircuitIdle ==
    /\ failure_counts = EmptyDict
    /\ last_failure_times = EmptyDict
    /\ calls = [p \in CircuitProcs |-> IdleCall]
    /\ streak = [k \in Keys |-> 0]

\* a freshly constructed CacheManager over an empty cache table
CacheIdle ==
    /\ cache = EmptyDict
    /\ cache_times = EmptyDict
    /\ db_cache = EmptyDict
    /\ cm_last = NoOp
    /\ deadline = EmptyDict

\* no call of the URL normalizer
NormIdle ==
    /\ norm_in = <<>>
    /\ norm_out = <<>>
    /\ norm_pc = "ready"

\* item.get('height', 0): no such key, an int, or a value of another type
\* (null, a string, a float)
NoHeight == [kind |-> "absent", v |-> 0]

IntHeight(n) == [kind |-> "int", v |-> n]

OtherHeight == [kind |-> "other", v |-> 0]

\* a node of the parsed JSON: a scalar, a list of its items (kids), or a dict
\* with its 'url' (or "ABSENT"), its 'height' and its other values (kids)
Scalar == [type |-> "scalar", url |-> "ABSENT", height |-> NoHeight, kids |-> <<>>]

IdleVideo ==
    [pc |-> "ready", data |-> Scalar, result |-> "None", legacy_result |-> "None"]

\* no call of the Video URL Hunter
VideoIdle == video = IdleVideo

\* no URL (None)
NoUrl ==
    [seg |-> [kind |-> "none", w |-> 0, h |-> 0], dir |-> "", name |-> "",
     ext |-> "", query |-> ""]

\* soup.find('meta', {'property': 'og:image'}): no tag
NoTag == [tag |-> FALSE, content |-> FALSE, url |-> NoUrl]

\* the locals and the outcome of a photo call (http: the status of the
\* document's response, 0 before it; meta_tag: the og:image tag found)
IdlePhoto ==
    [pc |-> "idle", impl |-> "none", status |-> "none", error |-> "none",
     media_url |-> NoUrl, from_cache |-> FALSE, http |-> 0, meta_tag |-> NoTag]

\* no photo call
PhotoIdle == photo = IdlePhoto

RequestTasks == {1, 2}          \* tasks that call _make_request

\* both pools after construction: no idle handle, none handed out (clients:
\* len(_clients); page_pool: len(_page_pool); *_out: handles held by callers;
\* last: what the last pool operation did with its handle; lock: the holder
\* of ConnectionPool._lock while it awaits, "free" otherwise; req, exit: the
\* position of each task in _make_request and how its last request ended)
IdlePools ==
    [clients |-> 0, clients_out |-> 0, page_pool |-> 0, pages_out |-> 0,
     last |-> "none", tracked |-> 0, client_op |-> "none", after |-> "none",
     handed |-> "none", lock |-> "free",
     req |-> [t \in RequestTasks |-> "idle"],
     exit |-> [t \in RequestTasks |-> "none"]]

PoolsIdle == pools = IdlePools

NumBoards == 3                  \* the boards asked for concurrently

Boards == 1..NumBoards

\* the global service after import: the browser not launched, no call (pc and
\* result of the wrapper call for each board; lost_browser: the browser was
\* closed under the call's page; no_page: create_page found no open browser;
\* lock: the task holding BrowserManager._lock, 0 for none; launches: the
\* browsers launched so far)
IdleService ==
    [browser |-> "none", initialized |-> FALSE,
     pc |-> [c \in Boards |-> "idle"],
     result |-> [c \in Boards |-> "none"],
     lost_browser |-> [c \in Boards |-> FALSE],
     no_page |-> [c \in Boards |-> FALSE],
     lock |-> 0, launches |-> 0]

ServiceIdle == service = IdleService

RateTasks == {1, 2}             \* tasks that call _rate_limit_check

Never == -1                     \* no time, no count yet (no entry in the dict)

\* the rate limiter after construction, for one endpoint (last: its entry of
\* _last_request_times; pc, current_time, wake: the tasks inside
\* _rate_limit_check; released, prev_released: when the last two calls
\* returned)
IdleLimiter ==
    [last |-> Never,
     pc |-> [t \in RateTasks |-> "idle"],
     current_time |-> [t \in RateTasks |-> 0],
     wake |-> [t \in RateTasks |-> 0],
     released |-> Never, prev_released |-> Never]

LimiterIdle == limiter = IdleLimiter

\* the size of the in-process cache after construction (len: the number of
\* keys of _cache, which are those of _cache_times; before, op: the size
\* before the last operation, and the operation)
IdleCacheLen == [len |-> 0, before |-> 0, op |-> "none"]

CacheLenIdle == cache_len = IdleCacheLen

\* a board call followed by the number of its unique URLs (unique:
\* len(all_image_urls); chain: the pages the endpoint still has for the
\* bookmark, 0 for no bookmark or '-end-'; yielded: the number of URLs when
\* the pagination was over, Never before; fallbacks: runs of the browser)
IdleBoardLen ==
    [pc |-> "idle", impl |-> "none", unique |-> 0, chain |-> 0, page_count |-> 0,
     max_pins |-> 0, fallbacks |-> 0, yielded |-> Never, status |-> "none"]

BoardLenIdle == board_len = IdleBoardLen

\* the tasks that use the database
DbTasks == {1, 2, 3}

\* database.ConnectionPool after __init__ (pool: len(_pool); created:
\* _created_connections; lock: the task inside async with self._lock, 0 for
\* none; pc: where each task is; slept: the task has found the limit reached)
IdleDbPool ==
    [pool |-> 0, created |-> 0, lock |-> 0,
     pc |-> [t \in DbTasks |-> "idle"], slept |-> [t \in DbTasks |-> FALSE]]

DbPoolIdle == db_pool = IdleDbPool

\* the single functions and components are not in use
ExtraIdle ==
    /\ VideoIdle /\ PhotoIdle /\ PoolsIdle /\ ServiceIdle /\ LimiterIdle
    /\ CacheLenIdle /\ BoardLenIdle /\ DbPoolIdle

NoToken == [kind |-> "none", n |-> 0]

\* the locals of a board call (all_image_urls, bookmark, page_count), what it
\* returned (status, error, image_urls, total_found) and its history (requests:
\* pages asked for, as far as the model counts, and its parity odd; fallbacks:
\* runs of the browser scraper; cyclic: the server's chain of bookmarks for this
\* board never reaches '-end-'; fetches: invocations of _fetch_board by
\* retry_with_backoff; net_fault: the landing request met a network error;
\* landing: whether the landing document carried board id and bookmark;
\* browser_urls: what the browser fallback extracted; cleaned_urls: the
\* normalized image URLs of the landing document; api_urls: the URLs the
\* pagination added; not_idle: the rendered page did not reach networkidle in
\* time; partial_urls: the usable URLs of the page rendered so far;
\* page_failed: a page request was answered with a status other than 200;
\* eligible: the URLs of the legacy landing document with an accepted
\* extension and a WxH segment at or above the floor, rewritten)
IdleBoard ==
    [pc |-> "idle", impl |-> "none", max_pins |-> 0, all_image_urls |-> {},
     legacy_urls |-> <<>>, bookmark |-> NoToken, page_count |-> 0,
     cyclic |-> FALSE, requests |-> 0, odd |-> FALSE, fallbacks |-> 0,
     status |-> "none",
     error |-> "none", from_cache |-> FALSE, image_urls |-> <<>>,
     total_found |-> 0, fetches |-> 0, net_fault |-> FALSE,
     landing |-> "none", browser_urls |-> {}, cleaned_urls |-> {},
     api_urls |-> {}, not_idle |-> FALSE, partial_urls |-> {},
     page_failed |-> FALSE, eligible |-> {}]

\* no board call has been made
BoardIdle == board = IdleBoard

InitCircuit ==
    /\ now = 0
    /\ CircuitIdle
    /\ CacheIdle
    /\ NormIdle
    /\ ExtraIdle
    /\ BoardIdle

\* retry_with_backoff up to the first await: the circuit check, and the first
\* invocation of func when the circuit is not open
Call(p, k, m) ==
    /\ calls[p].pc = "idle"
    /\ LET open == IsCircuitOpen(failure_counts, last_failure_times, k, now)
           c == [IdleCall EXCEPT
                   !.key = k, !.max_retries = m,
                   !.entry = EntryView(failure_counts, last_failure_times, k, now),
                   !.entry_tripped =
                       (/\ streak[k] >= circuit_breaker_threshold
                        /\ k \in DOMAIN last_failure_times
                        /\ now - last_failure_times[k] < circuit_breaker_timeout),
                   !.after_failed_trial =
                       (/\ calls[p].key = k
                        /\ calls[p].entry = "cooled"
                        /\ calls[p].outcome \in {"transient", "nontransient"}
                        /\ k \in DOMAIN last_failure_times
                        /\ now - last_failure_times[k] < circuit_breaker_timeout)]
       IN /\ failure_counts' =
                 CircuitCheckCounts(failure_counts, last_failure_times, k, now)
          /\ calls' = [calls EXCEPT ![p] =
                 IF open
                 THEN [c EXCEPT !.outcome = "circuit_open",
                                !.raised = "PinterestAPIException"]
                 ELSE [c EXCEPT !.pc = "running", !.invoked = 1]]
    /\ UNCHANGED <<now, last_failure_times, streak, notCircuit>>

\* func returns a result: _record_success, return
CompleteSuccess(p, r) ==
    /\ calls[p].pc = "running"
    /\ failure_counts' = RecordSuccess(failure_counts, calls[p].key)
    /\ last_failure_times' = RecordSuccess(last_failure_times, calls[p].key)
    /\ calls' = [calls EXCEPT ![p].pc = "idle", ![p].outcome = "success",
                              ![p].func_raised = "None", ![p].returned = r]
    /\ streak' = [streak EXCEPT ![calls[p].key] = 0]
    /\ UNCHANGED <<now, notCircuit>>

\* func raises httpx.ConnectTimeout / ReadTimeout / NetworkError
CompleteTransient(p, e) ==
    /\ calls[p].pc = "running"
    /\ LET k == calls[p].key
           last == (calls[p].attempt = calls[p].max_retries - 1)
           fc1 == RecordFailureCounts(failure_counts, k)
           last_exception == LastException(calls[p].last_exception, e)
       IN /\ failure_counts' = IF last THEN RecordFailureCounts(fc1, k) ELSE fc1
          /\ last_failure_times' = RecordFailureTimes(last_failure_times, k, now)
          /\ streak' = [streak EXCEPT ![k] =
                           Min(@ + 1, circuit_breaker_threshold)]
          /\ calls' = [calls EXCEPT ![p] =
                 IF last
                 THEN [@ EXCEPT !.pc = "idle", !.outcome = "transient",
                          !.last_error = "transient",
                          !.last_exception = last_exception,
                          !.transients = @ + 1, !.func_raised = e,
                          !.raised = last_exception]
                 ELSE [@ EXCEPT !.pc = "sleeping", !.slept = @ + 1,
                          !.last_error = "transient",
                          !.last_exception = last_exception,
                          !.transients = @ + 1, !.func_raised = e,
                          !.wake_at = now + BackoffDelay(RETRY_DELAY_BASE,
                                                         calls[p].attempt)]]
    /\ UNCHANGED <<now, notCircuit>>

\* (variant: the error is handled like a transient one, with backoff and retry)
CompleteOtherErrorRetried(p) ==
    /\ calls[p].pc = "running"
    /\ failure_counts' = RecordFailureCounts(failure_counts, calls[p].key)
    /\ last_failure_times' =
           RecordFailureTimes(last_failure_times, calls[p].key, now)
    /\ streak' = [streak EXCEPT ![calls[p].key] = 0]
    /\ calls' = [calls EXCEPT ![p] =
           IF calls[p].attempt = calls[p].max_retries - 1
           THEN [@ EXCEPT !.pc = "idle", !.outcome = "nontransient",
                    !.last_error = "other"]
           ELSE [@ EXCEPT !.pc = "sleeping", !.slept = @ + 1,
                    !.last_error = "other",
                    !.wake_at = now + BackoffDelay(RETRY_DELAY_BASE,
                                                   calls[p].attempt)]]
    /\ UNCHANGED <<now, notCircuit>>

\* func raises any other Exception: _record_failure, raise e
CompleteOtherError(p) ==
    /\ calls[p].pc = "running"
    /\ failure_counts' = RecordFailureCounts(failure_counts, calls[p].key)
    /\ last_failure_times' =
           RecordFailureTimes(last_failure_times, calls[p].key, now)
    /\ streak' = [streak EXCEPT ![calls[p].key] = 0]
    /\ calls' = [calls EXCEPT ![p].pc = "idle", ![p].outcome = "nontransient",
                              ![p].last_error = "other",
                              ![p].func_raised = "Other", ![p].raised = "Other"]
    /\ UNCHANGED <<now, notCircuit>>

\* (variant: the attempt that follows a sleep invokes func a second time)
WakeUpInvokesTwice(p) ==
    /\ calls[p].pc = "sleeping"
    /\ now >= calls[p].wake_at
    /\ calls' = [calls EXCEPT ![p].pc = "running", ![p].attempt = @ + 1,
                              ![p].invoked = @ + 2]
    /\ UNCHANGED <<now, failure_counts, last_failure_times, streak, notCircuit>>

\* asyncio.sleep(delay) returns: the next iteration of the loop invokes func
WakeUp(p) ==
    /\ calls[p].pc = "sleeping"
    /\ now >= calls[p].wake_at
    /\ calls' = [calls EXCEPT ![p].pc = "running", ![p].attempt = @ + 1,
                              ![p].invoked = @ + 1]
    /\ UNCHANGED <<now, failure_counts, last_failure_times, streak, notCircuit>>

\* time passes
Tick(d) ==
    /\ now + d <= MaxTime
    /\ now' = now + d
    /\ UNCHANGED <<circuitVars, notCircuit>>

NextCircuit ==
    \/ \E p \in DOMAIN calls, k \in Keys, m \in RetrySet : Call(p, k, m)
    \/ \E p \in DOMAIN calls, r \in Results : CompleteSuccess(p, r)
    \/ \E p \in DOMAIN calls, e \in TransientErrors : CompleteTransient(p, e)
    \/ \E p \in DOMAIN calls : CompleteOtherError(p)
    \/ \E p \in DOMAIN calls : WakeUp(p)
    \/ \E d \in TickSet : Tick(d)

SpecCircuit == InitCircuit /\ [][NextCircuit]_vars

(***************************************************************************)
(* Claims about RetryMixin, checked under SpecCircuit                      *)
(***************************************************************************)

\* C1: a call that enters retry_with_backoff when the threshold number of
\* consecutive transient failures has been recorded for its key with no
\* success in between, and less than the cool-down after the last failure, is
\* rejected with the circuit-open error and never invokes the operation.
C1_TrippedCallFailsFast ==
    \A p \in DOMAIN calls :
        calls[p].entry_tripped =>
            /\ calls[p].outcome = "circuit_open"
            /\ calls[p].invoked = 0

\* C28: a call that immediately follows, on the same key and within the
\* cool-down, a half-open trial call whose operation failed is rejected with
\* the circuit-open error and never invokes the operation.
C28_FailedTrialReopens ==
    \A p \in DOMAIN calls :
        calls[p].after_failed_trial =>
            /\ calls[p].outcome = "circuit_open"
            /\ calls[p].invoked = 0

\* C29: the operation is never invoked for a key whose circuit is open (the
\* threshold reached and the cool-down not elapsed), neither by the first
\* attempt of a call nor by a later attempt of its retry loop.
C29_NoInvocationWhileOpen ==
    [][\A p \in DOMAIN calls :
          (calls[p].pc # "running" /\ calls'[p].pc = "running")
              => ~ IsCircuitOpen(failure_counts, last_failure_times,
                                 calls'[p].key, now)
      ]_vars

\* C30: each failed attempt of the operation increments the failure counter of
\* its key by exactly one.
C30_OneIncrementPerFailedAttempt ==
    [][\A p \in DOMAIN calls :
          (/\ calls[p].pc = "running"
           /\ calls'[p].pc # "running"
           /\ calls'[p].outcome # "success")
              => DictGet(failure_counts', calls[p].key, 0)
                     = DictGet(failure_counts, calls[p].key, 0) + 1
      ]_vars

\* C40: a retry_with_backoff call rejected because the circuit of its key is
\* open changes neither the failure counts nor the last-failure times: the
\* cool-down is still measured from the last failure of the operation.
C40_RejectedCallChangesNothing ==
    [][\A p \in DOMAIN calls :
          (/\ calls[p].pc = "idle"
           /\ calls'[p].pc = "idle"
           /\ calls'[p].outcome = "circuit_open"
           /\ \A q \in DOMAIN calls \ {p} : calls'[q] = calls[q]
           /\ now' = now
           /\ IsCircuitOpen(failure_counts, last_failure_times,
                            calls'[p].key, now))
              => /\ failure_counts' = failure_counts
                 /\ last_failure_times' = last_failure_times
      ]_vars

\* a call has been rejected some time after the last failure of its key, and
\* the circuit is still open, counted from that failure
C40_Witness ==
    \E p \in DOMAIN calls :
        /\ calls[p].pc = "idle"
        /\ calls[p].outcome = "circuit_open"
        /\ calls[p].key \in DOMAIN last_failure_times
        /\ now > last_failure_times[calls[p].key]
        /\ IsCircuitOpen(failure_counts, last_failure_times, calls[p].key, now)

\* C7: a call that finds the circuit open with the cool-down elapsed invokes
\* the operation; a successful invocation clears both records of the key; and
\* a call on a key without a failure record is attempted.
C7_CooledCircuitClosesOnSuccess ==
    [][\A p \in DOMAIN calls :
          /\ (/\ calls[p].pc = "idle"
              /\ calls'[p] # calls[p]
              /\ calls'[p].entry = "cooled")
                 => (calls'[p].pc = "running" /\ calls'[p].invoked = 1)
          /\ (/\ calls[p].pc = "running"
              /\ calls'[p].pc = "idle"
              /\ calls'[p].outcome = "success")
                 => (/\ calls[p].key \notin DOMAIN failure_counts'
                     /\ calls[p].key \notin DOMAIN last_failure_times')
          /\ (/\ calls[p].pc = "idle"
              /\ calls'[p] # calls[p]
              /\ calls'[p].key \notin DOMAIN failure_counts)
                 => (calls'[p].pc = "running" /\ calls'[p].invoked = 1)
      ]_vars

\* a half-open trial call has succeeded and left its key without a record
C7_Witness ==
    \E p \in DOMAIN calls :
        /\ calls[p].entry = "cooled"
        /\ calls[p].pc = "idle"
        /\ calls[p].outcome = "success"
        /\ calls[p].key \notin DOMAIN failure_counts
        /\ calls[p].key \notin DOMAIN last_failure_times

\* C10 as stated: whenever the operation raised a non-transient error the call
\* ended with that error after exactly one invocation and without any sleep.
C10_NonTransientInvokedOnce ==
    \A p \in DOMAIN calls :
        calls[p].last_error = "other" =>
            /\ calls[p].pc = "idle"
            /\ calls[p].outcome = "nontransient"
            /\ calls[p].invoked = 1
            /\ calls[p].slept = 0

\* C10 amended: whenever the operation raised a non-transient error the call
\* ended at once with that error: no invocation and no sleep follow the failed
\* attempt, so the call made one invocation and one sleep per earlier transient
\* failure plus the failed invocation (exactly one invocation and no sleep when
\* it was the first attempt).
C10_NonTransientNotRetried ==
    \A p \in DOMAIN calls :
        calls[p].last_error = "other" =>
            /\ calls[p].pc = "idle"
            /\ calls[p].outcome = "nontransient"
            /\ calls[p].invoked = calls[p].attempt + 1
            /\ calls[p].slept = calls[p].attempt
            /\ (calls[p].attempt = 0 =>
                    calls[p].invoked = 1 /\ calls[p].slept = 0)

\* a first attempt has raised a non-transient error
C10_Witness ==
    \E p \in DOMAIN calls :
        /\ calls[p].last_error = "other"
        /\ calls[p].outcome = "nontransient"
        /\ calls[p].attempt = 0
        /\ calls[p].invoked = 1

\* C11: a call whose attempts all failed with a network error ended after
\* max_retries invocations and raised the exception of its final invocation.
C11_ExhaustionRaisesLastFault ==
    \A p \in DOMAIN calls :
        (calls[p].pc = "idle" /\ calls[p].outcome = "transient") =>
            /\ calls[p].invoked = calls[p].max_retries
            /\ calls[p].transients = calls[p].max_retries
            /\ calls[p].raised \in TransientErrors
            /\ calls[p].raised = calls[p].func_raised

\* three attempts failed with network errors, two sleeps between them, and the
\* call raised the error of the third
C11_Witness ==
    \E p \in DOMAIN calls :
        /\ calls[p].pc = "idle"
        /\ calls[p].outcome = "transient"
        /\ calls[p].invoked = 3
        /\ calls[p].slept = 2
        /\ calls[p].func_raised = "ReadTimeout"
        /\ calls[p].raised = "ReadTimeout"

\* C12: a call that returned did so with the result of the operation, after one
\* invocation per network error it caught (fewer than max_retries) and one more.
C12_SuccessAfterKFailures ==
    \A p \in DOMAIN calls :
        (calls[p].pc = "idle" /\ calls[p].outcome = "success") =>
            /\ calls[p].transients < calls[p].max_retries
            /\ calls[p].invoked = calls[p].transients + 1
            /\ calls[p].slept = calls[p].transients
            /\ calls[p].returned \in Results
            /\ calls[p].raised = "None"

\* a call that found the circuit closed returned after two network errors
C12_Witness ==
    \E p \in DOMAIN calls :
        /\ calls[p].pc = "idle"
        /\ calls[p].outcome = "success"
        /\ calls[p].entry \in {"norecord", "closed"}
        /\ calls[p].transients = 2
        /\ calls[p].invoked = 3
        /\ calls[p].returned = "r2"

(***************************************************************************)
(* CacheManager (in-process tier)                                          *)
(***************************************************************************)
CacheKeys == {"ka", "kb"}       \* cache keys (_generate_key is taken injective)

CacheValues == {"v1", "v2"}     \* cached results (non-empty dicts)

CacheTicks == {600}             \* amounts by which time passes

CacheHorizon == 4800            \* the clock runs this long after its start

DaySeconds == 24 * 60 * 60

LateStart == DaySeconds - 3600  \* a start one hour before midnight (UTC)

StartTimes == {0, LateStart}

max_cache_size == 1000

EvictBatch == 100

\* CACHE_TTL["pinterest_data"], the default ttl of get and of the two-tier
\* helpers
PinterestDataTtl == 1800

\* ttl passed by get_board_pins to _set_cached_data
BoardTtl == 3600

\* ttl of the lookups: get_board_pins and get_photo_data call
\* _get_cached_data(cache_key) with its default
BoardLookupTtl == PinterestDataTtl

PhotoLookupTtl == PinterestDataTtl

\* ttl of get_photo_data's _set_cached_data(cache_key, result): the default
PhotoTtl == PinterestDataTtl

\* CacheManager.get: is the entry served (present and younger than ttl)
CacheFreshAgeInclusive(c, ct, k, ttl, t) == k \in DOMAIN c /\ t - ct[k] <= ttl

CacheFresh(c, ct, k, ttl, t) == k \in DOMAIN c /\ t - ct[k] < ttl

\* CacheManager.get: the value returned
CacheGet(c, ct, k, ttl, t) ==
    IF CacheFresh(c, ct, k, ttl, t) THEN c[k] ELSE "None"

\* CacheManager.get: either dict after the lookup (an expired entry is deleted)
CacheAfterGet(d, c, ct, k, ttl, t) ==
    IF k \in DOMAIN c /\ ~ CacheFresh(c, ct, k, ttl, t) THEN DictDel(d, k) ELSE d

\* sorted(self._cache_times.keys(), key=...)[:n]: n keys with the oldest times
OldestKeys(ct, n) ==
    IF Cardinality(DOMAIN ct) <= n THEN DOMAIN ct
    ELSE CHOOSE S \in SUBSET (DOMAIN ct) :
            /\ Cardinality(S) = n
            /\ \A a \in S, b \in (DOMAIN ct) \ S : ct[a] <= ct[b]

\* CacheManager.set: either dict after the size management
CacheEvicted(d, c, ct) ==
    IF Cardinality(DOMAIN c) >= max_cache_size
    THEN [x \in (DOMAIN d) \ OldestKeys(ct, EvictBatch) |-> d[x]]
    ELSE d

\* CacheManager.set: the two dicts after the call
CacheSetData(c, ct, k, v) == DictSet(CacheEvicted(c, c, ct), k, v)

CacheSetTimes(c, ct, k, t) == DictSet(CacheEvicted(ct, c, ct), k, t)

StartOf(t) == IF t >= LateStart THEN LateStart ELSE 0

InitCache ==
    /\ now \in StartTimes
    /\ CircuitIdle
    /\ CacheIdle
    /\ NormIdle
    /\ ExtraIdle
    /\ BoardIdle

\* CacheManager.set(url, data)
CmSet(k, v) ==
    /\ cache' = CacheSetData(cache, cache_times, k, v)
    /\ cache_times' = CacheSetTimes(cache, cache_times, k, now)
    /\ cm_last' = [NoOp EXCEPT !.op = "set", !.key = k, !.value = v, !.at = now]
    /\ UNCHANGED <<now, db_cache, deadline, notCache>>

\* CacheManager.get(url, ttl=ttl)
CmGet(k, ttl) ==
    /\ cache' = CacheAfterGet(cache, cache, cache_times, k, ttl, now)
    /\ cache_times' = CacheAfterGet(cache_times, cache, cache_times, k, ttl, now)
    /\ cm_last' = [op |-> "get", key |-> k,
                   value |-> CacheGet(cache, cache_times, k, ttl, now),
                   ttl |-> ttl, at |-> now,
                   had |-> (k \in DOMAIN cache),
                   age |-> IF k \in DOMAIN cache THEN now - cache_times[k] ELSE 0,
                   after_set |-> (/\ cm_last.op = "set"
                                  /\ cm_last.key = k
                                  /\ cm_last.at = now),
                   set_value |-> cm_last.value]
    /\ UNCHANGED <<now, db_cache, deadline, notCache>>

\* time passes
TickCache(d) ==
    /\ now + d <= StartOf(now) + CacheHorizon
    /\ now' = now + d
    /\ UNCHANGED <<cacheVars, notCache>>

NextCacheManager ==
    \/ \E k \in CacheKeys, v \in CacheValues : CmSet(k, v)
    \/ \E k \in CacheKeys, ttl \in {0, PinterestDataTtl} : CmGet(k, ttl)
    \/ \E d \in CacheTicks : TickCache(d)

SpecCacheManager == InitCache /\ [][NextCacheManager]_vars

\* C8: a get that immediately follows a set of the same key, with a positive
\* ttl, returns the value just set; and a get that finds an entry whose age has
\* reached the ttl returns nothing and leaves the key in neither dict.
C8_GetAfterSetAndExpiry ==
    /\ (/\ cm_last.op = "get"
        /\ cm_last.after_set
        /\ cm_last.ttl > 0)
           => (/\ cm_last.value # "None"
               /\ cm_last.value = cm_last.set_value)
    /\ (/\ cm_last.op = "get"
        /\ cm_last.had
        /\ cm_last.age >= cm_last.ttl)
           => (/\ cm_last.value = "None"
               /\ cm_last.key \notin DOMAIN cache
               /\ cm_last.key \notin DOMAIN cache_times)

\* a get has just found an entry exactly as old as a positive ttl and removed it
C8_Witness ==
    /\ cm_last.op = "get"
    /\ cm_last.had
    /\ cm_last.ttl > 0
    /\ cm_last.age = cm_last.ttl
    /\ cm_last.value = "None"
    /\ cm_last.key \notin DOMAIN cache

(***************************************************************************)
(* Two-tier cache: CacheManager over the database table cache              *)
(***************************************************************************)
\* DatabaseService.get_cache: expires_at > CURRENT_TIMESTAMP compares the text
\* datetime.isoformat() wrote ("YYYY-MM-DDTHH:MM:SS") with the text SQLite
\* produces ("YYYY-MM-DD HH:MM:SS"); the dates decide, and on equal dates the
\* "T" of the stored text is greater than the space
DbUnexpired(expires_at, t) == (expires_at \div DaySeconds) >= (t \div DaySeconds)

\* DatabaseService.get_cache: a row is found; the value returned
DbHit(db, k, t, dbok) ==
    dbok /\ k \in DOMAIN db /\ DbUnexpired(db[k].expires_at, t)

DbGet(db, k, t, dbok) == IF DbHit(db, k, t, dbok) THEN db[k].value ELSE "None"

\* DatabaseService.set_cache: INSERT OR REPLACE; an error is logged and dropped
DbSet(db, k, v, ttl, t, dbok) ==
    IF dbok THEN DictSet(db, k, [value |-> v, expires_at |-> t + ttl]) ELSE db

TwoTierKeys == {"ka"}           \* cache keys used through the two-tier helpers

InitTwoTier ==
    /\ now \in StartTimes
    /\ CircuitIdle
    /\ CacheIdle
    /\ NormIdle
    /\ ExtraIdle
    /\ BoardIdle

\* PinterestService._set_cached_data(cache_key, data, ttl)
SetCached(k, v, ttl, dbok) ==
    /\ cache' = CacheSetData(cache, cache_times, k, v)
    /\ cache_times' = CacheSetTimes(cache, cache_times, k, now)
    /\ db_cache' = DbSet(db_cache, k, v, ttl, now, dbok)
    /\ deadline' = DictSet(deadline, <<k, v>>,
                           IF DictGet(deadline, <<k, v>>, 0) > now + ttl
                           THEN deadline[<<k, v>>] ELSE now + ttl)
    /\ cm_last' = [NoOp EXCEPT !.op = "set_cached", !.key = k, !.value = v,
                               !.ttl = ttl, !.at = now]
    /\ UNCHANGED <<now, notCache>>

\* PinterestService._get_cached_data(cache_key, ttl)
GetCached(k, ttl, dbok) ==
    LET cached == CacheGet(cache, cache_times, k, ttl, now)
        c1 == CacheAfterGet(cache, cache, cache_times, k, ttl, now)
        ct1 == CacheAfterGet(cache_times, cache, cache_times, k, ttl, now)
        db_cached == DbGet(db_cache, k, now, dbok)
        res == IF cached # "None" THEN cached ELSE db_cached
    IN /\ cache' = IF cached = "None" /\ db_cached # "None"
                   THEN CacheSetData(c1, ct1, k, db_cached) ELSE c1
       /\ cache_times' = IF cached = "None" /\ db_cached # "None"
                         THEN CacheSetTimes(c1, ct1, k, now) ELSE ct1
       /\ cm_last' = [NoOp EXCEPT !.op = "get_cached", !.key = k,
                                  !.value = res, !.ttl = ttl, !.at = now,
                                  !.had = (k \in DOMAIN cache)]
       /\ UNCHANGED <<now, db_cache, deadline, notCache>>

\* the process restarts (CacheManager.__init__) or CacheManager.clear() runs:
\* the in-process tier is empty, the table is kept
ClearMemory ==
    /\ cache' = EmptyDict
    /\ cache_times' = EmptyDict
    /\ cm_last' = NoOp
    /\ UNCHANGED <<now, db_cache, deadline, notCache>>

NextTwoTier ==
    \/ \E k \in TwoTierKeys, v \in CacheValues, ttl \in {PinterestDataTtl, BoardTtl},
          dbok \in BOOLEAN : SetCached(k, v, ttl, dbok)
    \/ \E k \in TwoTierKeys, dbok \in BOOLEAN : GetCached(k, PinterestDataTtl, dbok)
    \/ ClearMemory
    \/ \E d \in CacheTicks : TickCache(d)

SpecTwoTier == InitTwoTier /\ [][NextTwoTier]_vars

\* C9: a value that _get_cached_data returns for a key was stored for that key
\* by a _set_cached_data(key, v, ttl) at a time t with now <= t + ttl.
C9_NeverServedPastTtl ==
    (cm_last.op = "get_cached" /\ cm_last.value # "None") =>
        /\ <<cm_last.key, cm_last.value>> \in DOMAIN deadline
        /\ cm_last.at <= deadline[<<cm_last.key, cm_last.value>>]

(***************************************************************************)
(* Image URLs and the URL normalizer                                       *)
(*                                                                         *)
(* An image URL https://i.pinimg.com/<seg>/<dir>/<name><ext>[?<query>] is  *)
(* the record of its parts.  Its size segment seg is "originals", a width  *)
(* alone ("236x", kind "wonly") or WxH ("236x354", kind "wxh").            *)
(***************************************************************************)
MaxUrls == 2                    \* longest list handed to the normalizer

Originals == [kind |-> "originals", w |-> 0, h |-> 0]

SizeSegments ==
    { Originals,
      [kind |-> "wonly", w |-> 236, h |-> 0],      \* /236x/
      [kind |-> "wxh", w |-> 100, h |-> 100],      \* /100x100/
      [kind |-> "wxh", w |-> 236, h |-> 354],      \* /236x354/
      [kind |-> "wxh", w |-> 564, h |-> 846] }     \* /564x846/

UrlDirs == {"d1", "d2"}

UrlNames == {"a", "b"}

UrlExts == {".jpg", ".gif"}

UrlQueries == {"", "f=.jpg"}

UrlUniverse ==
    [seg : SizeSegments, dir : UrlDirs, name : UrlNames, ext : UrlExts,
     query : UrlQueries]

MIN_IMAGE_RESOLUTION == 200 * 200

AcceptedExts == {".jpg", ".jpeg", ".png", ".webp"}

\* the last characters of the URL text, as far as str.endswith looks at them
UrlTail(u) ==
    IF u.query = "" THEN u.ext
    ELSE IF u.query = "f=.jpg" THEN ".jpg"
    ELSE u.query

\* url.endswith(('.jpg', '.jpeg', '.png', '.webp'))
EndsWithAccepted(u) == UrlTail(u) \in AcceptedExts

\* re.sub(r'/\d+x\d+/', '/originals/', url)
ToOriginals(u) == IF u.seg.kind = "wxh" THEN [u EXCEPT !.seg = Originals] ELSE u

\* orig_url.split('/')[-1].split('?')[0]
BaseFilename(u) == <<u.name, u.ext>>

\* re.search(URL_PATTERNS["image_resolution"], url) found a match
HasResolution(u) == u.seg.kind = "wxh"

\* (variant: the resolution is looked for in the rewritten URL)
BelowFloorAfterRewrite(u, min_resolution) ==
    HasResolution(ToOriginals(u)) /\ u.seg.w * u.seg.h < min_resolution

\* resolution_match and width * height < min_resolution
BelowFloor(u, min_resolution) ==
    HasResolution(u) /\ u.seg.w * u.seg.h < min_resolution

\* seen_images after the loop over urls[1..n]: the kept URLs in insertion order
RECURSIVE SeenImages(_, _, _)
SeenImages(urls, n, min_resolution) ==
    IF n = 0 THEN <<>>
    ELSE LET seen == SeenImages(urls, n - 1, min_resolution)
             url == urls[n]
             orig_url == ToOriginals(url)
         IN IF ~ EndsWithAccepted(url) THEN seen
            ELSE IF BelowFloor(url, min_resolution) THEN seen
            ELSE IF \E j \in 1..Len(seen) :
                        BaseFilename(seen[j]) = BaseFilename(orig_url)
                 THEN seen
                 ELSE Append(seen, orig_url)

\* _clean_and_deduplicate_urls(urls, min_resolution)
CleanAndDeduplicate(urls, min_resolution) ==
    SeenImages(urls, Len(urls), min_resolution)

BoundedSeq(S, n) == UNION { [1..m -> S] : m \in 0..n }

InitNorm ==
    /\ now = 0
    /\ CircuitIdle
    /\ CacheIdle
    /\ BoardIdle
    /\ ExtraIdle
    /\ norm_in \in BoundedSeq(UrlUniverse, MaxUrls)
    /\ norm_out = <<>>
    /\ norm_pc = "ready"

\* self._clean_and_deduplicate_urls(urls)
Normalize ==
    /\ norm_pc = "ready"
    /\ norm_out' = CleanAndDeduplicate(norm_in, MIN_IMAGE_RESOLUTION)
    /\ norm_pc' = "done"
    /\ UNCHANGED <<norm_in, notNorm>>

NextNorm == Normalize

SpecNorm == InitNorm /\ [][NextNorm]_vars

\* the dedup key of a URL: the URL without its size segment and query string
DedupKey(u) == [dir |-> u.dir, name |-> u.name, ext |-> u.ext]

\* the resolution score of a URL: width x height of its size segment, else 0
ResolutionScore(u) == IF u.seg.kind = "wxh" THEN u.seg.w * u.seg.h ELSE 0

\* the width a size segment stands for; originals is the largest variant
SegWidth(seg) == IF seg.kind = "originals" THEN 100000 ELSE seg.w

RemoveAt(seq, i) == [j \in 1..(Len(seq) - 1) |-> IF j < i THEN seq[j] ELSE seq[j + 1]]

\* C4: for two URLs that differ only in their size segment the normalizer keeps
\* exactly one entry, with their common dedup key, that is at least as large as
\* both of them, and the same entry in whichever order the two URLs come.
C4_KeepsBestVariant ==
    (/\ norm_pc = "done"
     /\ Len(norm_in) = 2
     /\ norm_in[1] # norm_in[2]
     /\ [norm_in[1] EXCEPT !.seg = Originals] = [norm_in[2] EXCEPT !.seg = Originals])
        => /\ Len(norm_out) = 1
           /\ DedupKey(norm_out[1]) = DedupKey(norm_in[1])
           /\ SegWidth(norm_out[1].seg) >= SegWidth(norm_in[1].seg)
           /\ SegWidth(norm_out[1].seg) >= SegWidth(norm_in[2].seg)
           /\ norm_out = CleanAndDeduplicate(<<norm_in[2], norm_in[1]>>,
                                             MIN_IMAGE_RESOLUTION)

ChainLen == 2                   \* longest chain of bookmarks before '-end-'

MaxDocUrls == 2                 \* image URLs found in one document

MaxPinsSet == {0, 1, 2, 50, 100}    \* values of max_pins

BoardSegments ==
    { Originals,
      [kind |-> "wonly", w |-> 236, h |-> 0],
      [kind |-> "wxh", w |-> 236, h |-> 354] }

\* the image URLs the board's documents and pins may carry: three sizes of the
\* image a and the originals of the image b
BoardUrls ==
    { u \in UrlUniverse :
        /\ u.seg \in BoardSegments
        /\ u.dir = "d1" /\ u.ext = ".jpg" /\ u.query = ""
        /\ (u.name = "b" => u.seg = Originals) }

PageSize == 50

FallbackFloor == 10

FetchBoardKey == "_fetch_board"

CacheKey(max_pins) == <<"board_pins", max_pins>>

\* bookmarks: None, '-end-', a bookmark with n pages to go, and the bookmark
\* of a server whose chain never ends
EndToken == [kind |-> "end", n |-> 0]

LoopToken == [kind |-> "loop", n |-> 0]

PageToken(n) == [kind |-> "page", n |-> n]

\* the bookmark the endpoint returns for a request carrying bookmark tok
NextToken(tok) ==
    IF tok.kind = "page"
    THEN (IF tok.n = 1 THEN EndToken ELSE PageToken(tok.n - 1))
    ELSE tok

\* the bookmark a landing document may embed
StartTokens(cyclic) ==
    IF cyclic THEN {LoopToken}
    ELSE {EndToken} \cup { PageToken(n) : n \in 1..ChainLen }

\* the landing document, or the failure of its request
LandingResponses(cyclic, docs) ==
    [kind : {"ok"}, urls : docs,
     bookmark : {NoToken} \cup StartTokens(cyclic)]
    \cup [kind : {"http404", "http5xx", "neterror"}, urls : {<<>>},
          bookmark : {NoToken}]

\* the image URLs found in a document, in the order of the text
Docs == BoundedSeq(BoardUrls, MaxDocUrls)

\* pin['images']: size key and url of each entry, in the dict's order
PinQualities == {"orig", "236x", "170x"}

PinImages == [quality : PinQualities, url : BoardUrls]

\* a pin: no image, one, or two sizes of one image under different size keys
Pins ==
    { p \in BoundedSeq(PinImages, 2) :
        Len(p) = 2 => /\ p[1].quality # p[2].quality
                      /\ DedupKey(p[1].url) = DedupKey(p[2].url) }

\* the pins of one page
Pages == BoundedSeq(Pins, 1)

\* (where only the course of a call matters: documents and pages that carry at
\* most one URL, an originals or a width-only variant of one image)
SmallDocs == BoundedSeq({ u \in BoardUrls : u.name = "a" /\ u.seg.kind # "wxh" }, 1)

SmallPages ==
    { p \in Pages : \A i \in 1..Len(p) :
        Len(p[i]) = 1 /\ p[i][1].quality = "orig" /\ <<p[i][1].url>> \in SmallDocs }

\* one page of the endpoint, or the failure of its request
PageResponses(tok, pages) ==
    [kind : {"ok"}, pins : pages, bookmark : {NextToken(tok), NoToken}]
    \cup [kind : {"non200", "error"}, pins : {<<>>}, bookmark : {NoToken}]

\* what the browser scraper found in the rendered page, its failure, or the
\* timeout of wait_for_load_state("networkidle") on the page rendered so far
BrowserResults(docs) ==
    [kind : {"ok"}, urls : docs]
    \cup [kind : {"error"}, urls : {<<>>}]
    \cup [kind : {"timeout"}, urls : docs]

Range(seq) == { seq[i] : i \in 1..Len(seq) }

Take(seq, n) == SubSeq(seq, 1, Min(n, Len(seq)))

\* list(a_set): the elements once each, in an order the program does not choose
Orders(S) ==
    { o \in [1..Cardinality(S) -> S] : \A i, j \in DOMAIN o : i # j => o[i] # o[j] }

QualityOrder == <<"orig", "originals", "736x", "564x", "474x", "236x">>

RECURSIVE FirstByQuality(_, _)
FirstByQuality(pin, i) ==
    IF i > Len(QualityOrder) THEN {}
    ELSE LET m == { j \in 1..Len(pin) : pin[j].quality = QualityOrder[i] }
         IN IF m # {} THEN { pin[j].url : j \in m }
            ELSE FirstByQuality(pin, i + 1)

\* PinterestService._extract_image_url(pin): the URL, or nothing for None
ExtractImageUrl(pin) ==
    IF Len(pin) = 0 THEN {}
    ELSE IF FirstByQuality(pin, 1) # {} THEN FirstByQuality(pin, 1)
    ELSE {pin[1].url}

\* all_image_urls after the for loop over the pins of a page
AddPins(urls, pins) ==
    urls \cup { ToOriginals(u) : u \in UNION { ExtractImageUrl(pins[i]) : i \in 1..Len(pins) } }

\* while bookmark and bookmark != '-end-' and page_count < max_pages
LoopContinues(bookmark, page_count, max_pages) ==
    /\ bookmark.kind # "none"
    /\ bookmark.kind # "end"
    /\ page_count < max_pages

notBoard == <<now, calls, streak, cm_last, deadline, normVars, extraVars>>

boardEffects ==
    <<cache, cache_times, db_cache, failure_counts, last_failure_times>>

\* the call is suspended at an await with the locals b
Suspended(b) ==
    /\ board' = b
    /\ UNCHANGED boardEffects

\* _fetch_board raises; the error is none of the network errors that
\* retry_with_backoff retries, so it records one failure and re-raises
Failed(b, error) ==
    /\ board' = [b EXCEPT !.pc = "idle", !.status = "error", !.error = error]
    /\ failure_counts' = RecordFailureCounts(failure_counts, FetchBoardKey)
    /\ last_failure_times' = RecordFailureTimes(last_failure_times, FetchBoardKey, now)
    /\ UNCHANGED <<cache, cache_times, db_cache>>

\* (variant: the whole list is returned)
BoardResultUncapped(order, max_pins) ==
    [is_success |-> TRUE, image_urls |-> order, total_found |-> Len(order)]

\* the result dict of _fetch_board, order being list(all_image_urls)
BoardResult(order, max_pins) ==
    [is_success |-> TRUE, image_urls |-> Take(order, max_pins),
     total_found |-> Len(order)]

\* the end of _fetch_board: the empty check, the result, its storing in both
\* cache tiers, and _record_success in retry_with_backoff
Complete(b) ==
    IF b.all_image_urls = {}
    THEN Failed(b, "MediaProcessing")
    ELSE \E result \in { BoardResult(order, b.max_pins) :
                              order \in Orders(b.all_image_urls) },
            dbok \in BOOLEAN :
            LET key == CacheKey(b.max_pins)
            IN /\ board' = [b EXCEPT !.pc = "idle", !.status = "ok",
                                     !.image_urls = result.image_urls,
                                     !.total_found = result.total_found]
               /\ cache' = CacheSetData(cache, cache_times, key, result)
               /\ cache_times' = CacheSetTimes(cache, cache_times, key, now)
               /\ db_cache' = DbSet(db_cache, key, result, BoardTtl, now, dbok)
               /\ failure_counts' = RecordSuccess(failure_counts, FetchBoardKey)
               /\ last_failure_times' = RecordSuccess(last_failure_times, FetchBoardKey)

\* (variant: the browser scraper is never run)
AfterLoopNoFallback(b) == Complete(b)

\* (variant: the scraper also runs with exactly 10 URLs)
FallbackNeededAtFloor(n) == n <= FallbackFloor

\* if len(all_image_urls) < 10
FallbackNeeded(n) == n < FallbackFloor

\* after the pagination: if len(all_image_urls) < 10 the browser scraper runs
AfterLoop(b) ==
    IF FallbackNeeded(Cardinality(b.all_image_urls))
    THEN Suspended([b EXCEPT !.pc = "fallback", !.fallbacks = @ + 1])
    ELSE Complete(b)

\* the head of the while loop: the next page is asked for, or the loop ends
LoopHead(b) ==
    IF LoopContinues(b.bookmark, b.page_count, b.max_pins \div PageSize)
    THEN Suspended([b EXCEPT !.pc = "paging", !.requests = @ + 1, !.odd = ~ @])
    ELSE AfterLoop(b)

\* get_board_pins up to its first request: the lookup in both cache tiers, the
\* circuit check of retry_with_backoff, the request for the landing document
BoardCall(cyclic, dbok) ==
    /\ board.pc = "idle"
    /\ LET key == CacheKey(board.max_pins)
           ttl == BoardLookupTtl
           fresh == CacheFresh(cache, cache_times, key, ttl, now)
           c1 == CacheAfterGet(cache, cache, cache_times, key, ttl, now)
           ct1 == CacheAfterGet(cache_times, cache, cache_times, key, ttl, now)
           b == [IdleBoard EXCEPT !.impl = "service", !.max_pins = board.max_pins,
                                  !.cyclic = cyclic]
       IN IF fresh
          THEN /\ board' = [b EXCEPT !.status = "ok", !.from_cache = TRUE,
                                     !.image_urls = cache[key].image_urls,
                                     !.total_found = cache[key].total_found]
               /\ UNCHANGED boardEffects
          ELSE IF DbHit(db_cache, key, now, dbok)
          THEN /\ board' = [b EXCEPT !.status = "ok", !.from_cache = TRUE,
                                     !.image_urls = db_cache[key].value.image_urls,
                                     !.total_found = db_cache[key].value.total_found]
               /\ cache' = CacheSetData(c1, ct1, key, db_cache[key].value)
               /\ cache_times' = CacheSetTimes(c1, ct1, key, now)
               /\ UNCHANGED <<db_cache, failure_counts, last_failure_times>>
          ELSE /\ cache' = c1
               /\ cache_times' = ct1
               /\ failure_counts' =
                      CircuitCheckCounts(failure_counts, last_failure_times,
                                         FetchBoardKey, now)
               /\ UNCHANGED <<db_cache, last_failure_times>>
               /\ board' =
                    IF IsCircuitOpen(failure_counts, last_failure_times,
                                     FetchBoardKey, now)
                    THEN [b EXCEPT !.status = "error", !.error = "CircuitOpen"]
                    ELSE [b EXCEPT !.pc = "landing", !.fetches = 1]
    /\ UNCHANGED notBoard

\* the landing request completes: raise_for_status, the URLs of the document
\* through the normalizer, board id and bookmark, then the loop head
LandingResponse(resp) ==
    /\ board.pc = "landing"
    /\ board.impl = "service"
    /\ IF resp.kind = "http404" THEN Failed(board, "DeadLink")
       ELSE IF resp.kind = "http5xx" THEN Failed(board, "PinterestAPI")
       ELSE IF resp.kind = "neterror"
       THEN Failed([board EXCEPT !.net_fault = TRUE], "MediaProcessing")
       ELSE LoopHead([board EXCEPT
                        !.all_image_urls =
                            Range(CleanAndDeduplicate(resp.urls, MIN_IMAGE_RESOLUTION)),
                        !.bookmark = resp.bookmark,
                        !.cleaned_urls =
                            Range(CleanAndDeduplicate(resp.urls, MIN_IMAGE_RESOLUTION)),
                        !.landing = IF resp.bookmark = NoToken
                                    THEN "no_ids" ELSE "ids"])
    /\ UNCHANGED notBoard

\* a page request completes: a status other than 200 ends the loop, an
\* exception fails the call, a page adds its pins and moves the bookmark
PageResponse(resp) ==
    /\ board.pc = "paging"
    /\ board.impl = "service"
    /\ IF resp.kind = "error" THEN Failed(board, "MediaProcessing")
       ELSE IF resp.kind = "non200"
       THEN AfterLoop([board EXCEPT !.page_failed = TRUE])
       ELSE LoopHead([board EXCEPT
                        !.all_image_urls = AddPins(@, resp.pins),
                        !.api_urls = AddPins(@, resp.pins),
                        !.bookmark = resp.bookmark,
                        !.page_count = @ + 1])
    /\ UNCHANGED notBoard

\* _scrape_board_with_browser returns its normalized URLs or raises
BrowserResult(res) ==
    /\ board.pc = "fallback"
    /\ board.impl = "service"
    /\ IF res.kind = "error" THEN Failed(board, "MediaProcessing")
       ELSE IF res.kind = "timeout"
       THEN Failed([board EXCEPT
                      !.not_idle = TRUE,
                      !.partial_urls =
                          Range(CleanAndDeduplicate(res.urls, MIN_IMAGE_RESOLUTION))],
                   "MediaProcessing")
       ELSE Complete([board EXCEPT
                        !.all_image_urls =
                            @ \cup Range(CleanAndDeduplicate(res.urls, MIN_IMAGE_RESOLUTION)),
                        !.browser_urls =
                            Range(CleanAndDeduplicate(res.urls, MIN_IMAGE_RESOLUTION))])
    /\ UNCHANGED notBoard

InitBoard ==
    /\ now = 0
    /\ CircuitIdle
    /\ CacheIdle
    /\ NormIdle
    /\ ExtraIdle
    /\ \E m \in MaxPinsSet : board = [IdleBoard EXCEPT !.max_pins = m]

(***************************************************************************)
(* The legacy get_all_pins_with_pagination (modules/pinterest.py)          *)
(***************************************************************************)
MIN_RESOLUTION == 200 * 200

LegacyAcceptedExts == {".jpg", ".jpeg", ".png"}

\* get_image_resolution(url)
LegacyResolution(u) == IF HasResolution(u) THEN u.seg.w * u.seg.h ELSE 0

\* is_duplicate_image compares the last path segment, query string included
LegacyBase(u) == <<u.name, u.ext, u.query>>

\* one URL through the filter and the duplicate check; kept is the dict's keys
LegacyAdd(kept, orig_url) ==
    IF LegacyResolution(orig_url) < MIN_RESOLUTION THEN kept
    ELSE IF \E j \in 1..Len(kept) : LegacyBase(kept[j]) = LegacyBase(orig_url)
    THEN kept
    ELSE Append(kept, orig_url)

\* the for loop over the URLs of a document, urls[1..n]
RECURSIVE LegacyKept(_, _, _)
LegacyKept(kept, urls, n) ==
    IF n = 0 THEN kept
    ELSE LET prev == LegacyKept(kept, urls, n - 1)
         IN IF UrlTail(urls[n]) \notin LegacyAcceptedExts THEN prev
            ELSE LegacyAdd(prev, ToOriginals(urls[n]))

\* best_url and best_resolution after the entries pin[1..n]
RECURSIVE LegacyBest(_, _)
LegacyBest(pin, n) ==
    IF n = 0 THEN [url |-> {}, resolution |-> 0]
    ELSE LET prev == LegacyBest(pin, n - 1)
             resolution == LegacyResolution(pin[n].url)
         IN IF resolution > prev.resolution
            THEN [url |-> {pin[n].url}, resolution |-> resolution]
            ELSE prev

\* the for loop over the pins of a page, pins[1..n]
RECURSIVE LegacyAddPins(_, _, _)
LegacyAddPins(kept, pins, n) ==
    IF n = 0 THEN kept
    ELSE LET prev == LegacyAddPins(kept, pins, n - 1)
             best == LegacyBest(pins[n], Len(pins[n])).url
         IN IF best = {} THEN prev
            ELSE LegacyAdd(prev, ToOriginals(CHOOSE u \in best : TRUE))

\* (variant: the sentinel is not looked for)
LegacyLoopIgnoresSentinel(bookmark) == bookmark.kind # "none"

\* while bookmark and bookmark != '-end-'
LegacyLoopContinues(bookmark) ==
    /\ bookmark.kind # "none"
    /\ bookmark.kind # "end"

\* the function returns {"is_success": False, ...}
LegacyFailed(b, error) ==
    board' = [b EXCEPT !.pc = "idle", !.status = "error", !.error = error]

\* the function returns the keys of the dict urls
LegacySucceeded(b, urls) ==
    board' = [b EXCEPT !.pc = "idle", !.status = "ok", !.image_urls = urls,
                       !.total_found = Len(urls)]

\* the head of the while loop, and the return that follows the loop
LegacyLoopHead(b) ==
    IF LegacyLoopContinues(b.bookmark)
    THEN board' = [b EXCEPT !.pc = "paging", !.odd = ~ @,
                            !.requests = Min(@ + 1, ChainLen + 1)]
    ELSE IF b.legacy_urls # <<>> THEN LegacySucceeded(b, b.legacy_urls)
    ELSE LegacyFailed(b, "empty")

\* the function up to the request for the landing document
LegacyCall(cyclic) ==
    /\ board.pc = "idle"
    /\ board' = [IdleBoard EXCEPT !.pc = "landing", !.impl = "legacy",
                                  !.max_pins = board.max_pins, !.cyclic = cyclic]
    /\ UNCHANGED <<boardEffects, notBoard>>

\* the landing request completes
LegacyLandingResponse(resp) ==
    /\ board.pc = "landing"
    /\ board.impl = "legacy"
    /\ LET kept == LegacyKept(<<>>, resp.urls, Len(resp.urls))
           b == [board EXCEPT !.legacy_urls = kept, !.bookmark = resp.bookmark,
                              !.eligible =
                                  { ToOriginals(u) : u \in
                                      { v \in Range(resp.urls) :
                                          /\ UrlTail(v) \in LegacyAcceptedExts
                                          /\ LegacyResolution(v) >= MIN_RESOLUTION } },
                              !.landing = IF resp.bookmark = NoToken
                                          THEN "no_ids" ELSE "ids"]
       IN IF resp.kind # "ok" THEN LegacyFailed(board, "scraping")
          ELSE IF resp.bookmark.kind = "none"
          THEN (IF kept # <<>> THEN LegacySucceeded(b, kept)
                ELSE board' = [b EXCEPT !.pc = "fallback", !.fallbacks = @ + 1])
          ELSE LegacyLoopHead(b)
    /\ UNCHANGED <<boardEffects, notBoard>>

\* a page request completes
LegacyPageResponse(resp) ==
    /\ board.pc = "paging"
    /\ board.impl = "legacy"
    /\ IF resp.kind = "error" THEN LegacyFailed(board, "scraping")
       ELSE IF resp.kind = "non200"
       THEN LegacyLoopHead([board EXCEPT !.bookmark = NoToken,
                                         !.page_failed = TRUE])
       ELSE LegacyLoopHead([board EXCEPT
                              !.legacy_urls = LegacyAddPins(@, resp.pins, Len(resp.pins)),
                              !.bookmark = resp.bookmark])
    /\ UNCHANGED <<boardEffects, notBoard>>

\* the Playwright fallback completes
LegacyBrowserResult(res) ==
    /\ board.pc = "fallback"
    /\ board.impl = "legacy"
    /\ LET processed == LegacyKept(<<>>, res.urls, Len(res.urls))
       IN IF res.kind = "error" THEN LegacyFailed(board, "playwright")
          ELSE IF res.kind = "timeout"
          THEN LegacyFailed([board EXCEPT !.not_idle = TRUE,
                                          !.partial_urls = Range(processed)],
                            "playwright")
          ELSE IF processed # <<>>
          THEN LegacySucceeded([board EXCEPT !.browser_urls = Range(processed)],
                               processed)
          ELSE LegacyFailed(board, "empty")
    /\ UNCHANGED <<boardEffects, notBoard>>

\* the steps that end an await of a board call
BoardSteps(docs, pages) ==
    \/ \E resp \in LandingResponses(board.cyclic, docs) : LandingResponse(resp)
    \/ \E resp \in PageResponses(board.bookmark, pages) : PageResponse(resp)
    \/ \E res \in BrowserResults(docs) : BrowserResult(res)
    \/ \E resp \in LandingResponses(board.cyclic, docs) : LegacyLandingResponse(resp)
    \/ \E resp \in PageResponses(board.bookmark, pages) : LegacyPageResponse(resp)
    \/ \E res \in BrowserResults(docs) : LegacyBrowserResult(res)

BoardCalls ==
    \/ \E cyclic \in BOOLEAN, dbok \in BOOLEAN : BoardCall(cyclic, dbok)
    \/ \E cyclic \in BOOLEAN : LegacyCall(cyclic)

NextBoard == BoardCalls \/ BoardSteps(Docs, Pages)

SpecBoard == InitBoard /\ [][NextBoard]_vars

NextBoardSmall == BoardCalls \/ BoardSteps(SmallDocs, SmallPages)

\* a board whose landing document embeds the 236x, the 564x and the originals
\* variant of the image a, and whose pins carry the image b
ScenarioUrl(seg, name) ==
    [seg |-> seg, dir |-> "d1", name |-> name, ext |-> ".jpg", query |-> ""]

ScenarioDoc ==
    <<ScenarioUrl([kind |-> "wonly", w |-> 236, h |-> 0], "a"),
      ScenarioUrl([kind |-> "wonly", w |-> 564, h |-> 0], "a"),
      ScenarioUrl(Originals, "a")>>

\* the document's URLs in the order above or originals first, and what the
\* rendered page may show: nothing, or the same URLs
ScenarioDocs == {<<>>, ScenarioDoc, <<ScenarioDoc[3], ScenarioDoc[2], ScenarioDoc[1]>>}

ScenarioPin == <<[quality |-> "orig", url |-> ScenarioUrl(Originals, "b")]>>

ScenarioPages == {<<>>, <<ScenarioPin>>}

NextScenario == BoardCalls \/ BoardSteps(ScenarioDocs, ScenarioPages)

SpecScenario == InitBoard /\ [][NextScenario]_vars

\* every request and every sleep of a call ends: with a response, an error or
\* the client's timeout
FairSpecBoard ==
    /\ InitBoard
    /\ [][NextBoardSmall]_vars
    /\ WF_vars(BoardSteps(SmallDocs, SmallPages))

\* C2: a successful get_board_pins returns at most max_pins image URLs,
\* whatever the landing document, the pages and the browser fallback supplied.
C2_AtMostMaxPins ==
    (board.impl = "service" /\ board.pc = "idle" /\ board.status = "ok")
        => Len(board.image_urls) <= board.max_pins

\* a fetched (not cached) result was cut: more URLs were found than max_pins
C2_Witness ==
    /\ board.impl = "service"
    /\ board.pc = "idle"
    /\ board.status = "ok"
    /\ ~ board.from_cache
    /\ board.max_pins > 0
    /\ board.total_found > board.max_pins
    /\ Len(board.image_urls) = board.max_pins

\* C3: no two URLs returned by a successful get_board_pins have the same dedup
\* key, whichever of the three sources supplied them.
C3_NoSharedDedupKey ==
    (board.impl = "service" /\ board.pc = "idle" /\ board.status = "ok")
        => \A i, j \in 1..Len(board.image_urls) :
              i # j => DedupKey(board.image_urls[i]) # DedupKey(board.image_urls[j])

\* C6: when the server's chain of bookmarks reaches '-end-', a board call of
\* either implementation ends, whether or not max_pins URLs were collected.
C6_PaginationTerminates ==
    []((board.pc # "idle" /\ ~ board.cyclic) => <>(board.pc = "idle"))

\* a call went through every page of the chain to '-end-' and returned fewer
\* URLs than max_pins
C6_Witness ==
    /\ board.impl = "service"
    /\ board.pc = "idle"
    /\ board.status = "ok"
    /\ ~ board.cyclic
    /\ board.bookmark = EndToken
    /\ board.requests >= 2
    /\ board.total_found < board.max_pins

\* C15: a board call whose landing document carried no board id or bookmark
\* (and fewer than 10 images) runs the browser fallback once, never twice, and
\* when it succeeds every URL the fallback extracted is among the URLs found;
\* the result is cut from these at max_pins, so it holds all of them when the
\* cap is not reached.
C15_FallbackOnceAndMerged ==
    /\ board.fallbacks <= 1
    /\ (board.pc = "idle" /\ board.landing = "no_ids") =>
           /\ board.fallbacks = 1
           /\ (board.impl = "service" /\ board.status = "ok") =>
                  /\ board.browser_urls \subseteq board.all_image_urls
                  /\ board.total_found = Cardinality(board.all_image_urls)
                  /\ Range(board.image_urls) \subseteq board.all_image_urls
                  /\ Len(board.image_urls) = Min(board.max_pins, board.total_found)
                  /\ (board.total_found <= board.max_pins =>
                         board.browser_urls \subseteq Range(board.image_urls))
           /\ (board.impl = "legacy" /\ board.status = "ok") =>
                  board.browser_urls \subseteq Range(board.image_urls)

\* a call without board id ran the fallback once and returned the landing
\* document's URL together with the two URLs only the fallback found
C15_Witness ==
    /\ board.impl = "service"
    /\ board.pc = "idle"
    /\ board.status = "ok"
    /\ board.landing = "no_ids"
    /\ board.fallbacks = 1
    /\ Cardinality(board.browser_urls) = 2
    /\ board.total_found = 3
    /\ board.browser_urls \subseteq Range(board.image_urls)

\* C16: a get_board_pins call whose landing document embedded the 236x, 564x and
\* originals variants of one image (every non-empty document of SpecScenario
\* does, and its normalized URLs are then a variant of that image) with board
\* id and bookmark, and whose single
\* page request brought one new image and the bookmark '-end-', returns exactly
\* 2 URLs, the first of them an originals variant.
C16_ScenarioReturnsTwoOriginalsFirst ==
    ( /\ board.impl = "service"
      /\ board.pc = "idle"
      /\ board.cleaned_urls # {}
      /\ board.cleaned_urls \subseteq Range(ScenarioDoc)
      /\ board.landing = "ids"
      /\ board.requests = 1
      /\ board.bookmark = EndToken
      /\ board.api_urls = {ScenarioUrl(Originals, "b")}
      /\ board.max_pins >= 2 )
        => /\ board.status = "ok"
           /\ Len(board.image_urls) = 2
           /\ board.image_urls[1].seg = Originals

\* C31: after the landing document or a page has been received, the service
\* asks for the next page exactly when the bookmark is a cursor (neither
\* absent nor '-end-') and fewer than max_pins unique URLs are accumulated.
C31_PagesWhileBelowMax ==
    [][ ( /\ board.impl = "service"
          /\ \/ board'.page_count > board.page_count
             \/ (board.pc = "landing" /\ board'.landing = "ids") )
        => ( (board'.pc = "paging" /\ board'.requests > board.requests)
               <=> ( /\ board'.bookmark.kind \notin {"none", "end"}
                     /\ Cardinality(board'.all_image_urls) < board'.max_pins ) )
      ]_vars

\* C32: once a page request has been answered with a status other than 200,
\* the call asks for no further page, and the URLs accumulated before that
\* answer are part of what the call returns.
C32_FailedPageEndsPagingKeepsAssets ==
    /\ []( ( /\ board.page_failed /\ board.pc = "idle" /\ board.impl = "service"
              /\ board.cleaned_urls \cup board.api_urls # {} )
            => ( /\ board.status = "ok"
                 /\ board.cleaned_urls \cup board.api_urls
                        \subseteq board.all_image_urls ) )
    /\ [][ (board.page_failed /\ board'.page_failed)
              => board'.requests = board.requests ]_vars

\* C34: in the legacy function a URL of the landing document with an accepted
\* extension and a WxH segment of W x H at or above the floor is retained (it,
\* or an earlier URL of the same image, is among the URLs kept).
C34_LegacyKeepsLargeEnough ==
    board.impl = "legacy" =>
        \A u \in board.eligible :
            \E j \in 1..Len(board.legacy_urls) :
                LegacyBase(board.legacy_urls[j]) = LegacyBase(u)

\* C22: when the rendered page of the browser fallback does not reach
\* networkidle in time, the fallback does not fail: the call does not end with
\* the fallback's error, and the usable URLs of the page rendered so far are
\* among the URLs found.
C22_NotQuiescentNotFatal ==
    (board.pc = "idle" /\ board.not_idle) =>
        /\ board.error # "playwright"
        /\ board.partial_urls # {} =>
               (board.status = "ok" /\ board.partial_urls \subseteq board.all_image_urls)

\* C23: a get_board_pins call whose landing document was fetched fails exactly
\* when no URL has been accumulated (all_image_urls empty after the fallback
\* step), and otherwise returns the accumulated URLs cut at max_pins.
C23_FailsExactlyWhenEmpty ==
    ( /\ board.impl = "service"
      /\ board.pc = "idle"
      /\ board.landing # "none" )
        => /\ (board.status = "error") <=> (board.all_image_urls = {})
           /\ board.status = "ok" =>
                  /\ Range(board.image_urls) \subseteq board.all_image_urls
                  /\ Len(board.image_urls) =
                         Min(board.max_pins, Cardinality(board.all_image_urls))

\* C13: a get_board_pins call whose landing request met a network error
\* (connection or timeout) ended only after retry_with_backoff had invoked
\* _fetch_board max_retries times.
C13_NetworkFaultRetried ==
    (board.impl = "service" /\ board.pc = "idle" /\ board.net_fault)
        => board.fetches = MAX_RETRY_ATTEMPTS

(***************************************************************************)
(* Video URL Hunter: PinterestService._find_best_video_url and the legacy  *)
(* find_best_video_url                                                     *)
(***************************************************************************)
MaxKids == 2                    \* most items of a list, most other values of a dict

Mp4Urls == {"hi.mp4", "lo.mp4"}

M3u8Urls == {"s.m3u8"}

\* values of a dict's 'url'
VideoUrlTexts == {"ABSENT", "p.html"} \cup Mp4Urls \cup M3u8Urls

VideoHeights == {NoHeight, IntHeight(720), IntHeight(1080), OtherHeight}

LeafDicts ==
    [type : {"dict"}, url : VideoUrlTexts, height : VideoHeights, kids : {<<>>}]

Leaves == {Scalar} \cup LeafDicts

\* the structures handed to the hunter: a scalar, or a list or dict over leaves
VideoData ==
    Leaves
    \cup [type : {"list"}, url : {"ABSENT"}, height : {NoHeight},
          kids : BoundedSeq(Leaves, MaxKids)]
    \cup [type : {"dict"}, url : VideoUrlTexts, height : VideoHeights,
          kids : BoundedSeq(Leaves, MaxKids) \ {<<>>}]

\* url.endswith('.mp4') -> 2, '.m3u8' in url -> 1, else 0
Priority(url) ==
    IF url \in Mp4Urls THEN 2
    ELSE IF url \in M3u8Urls THEN 1
    ELSE 0

\* the legacy function's priorities: 1, 0, -1
LegacyPriority(url) == Priority(url) - 1

\* what videos_found.append receives for the dict item, if anything
FoundAt(item, legacy) ==
    LET priority == IF legacy THEN LegacyPriority(item.url) ELSE Priority(item.url)
        floor == IF legacy THEN 0 ELSE 1
    IN IF /\ item.url # "ABSENT"
          /\ priority >= floor
          /\ item.height.kind # "other"
       THEN << [url |-> item.url, height |-> item.height.v, priority |-> priority] >>
       ELSE <<>>

\* videos_found after the recursive search of item / of the items seq[1..n]
RECURSIVE Search(_, _)
RECURSIVE SearchAll(_, _, _)
Search(item, legacy) ==
    IF item.type = "dict"
    THEN FoundAt(item, legacy) \o SearchAll(item.kids, Len(item.kids), legacy)
    ELSE IF item.type = "list"
    THEN SearchAll(item.kids, Len(item.kids), legacy)
    ELSE <<>>

SearchAll(seq, n, legacy) ==
    IF n = 0 THEN <<>>
    ELSE SearchAll(seq, n - 1, legacy) \o Search(seq[n], legacy)

\* x sorts before y under key (priority, height), reverse=True
SortsBefore(x, y) ==
    \/ x.priority > y.priority
    \/ x.priority = y.priority /\ x.height > y.height

\* videos_found.sort(...)[0]['url'] of a stable sort, or None for an empty list
BestUrl(found) ==
    IF found = <<>> THEN "None"
    ELSE LET i == CHOOSE i \in 1..Len(found) :
                    /\ \A j \in 1..Len(found) : ~ SortsBefore(found[j], found[i])
                    /\ \A j \in 1..(i - 1) : SortsBefore(found[i], found[j])
         IN found[i].url

FindBestVideoUrl(data, legacy) == BestUrl(Search(data, legacy))

InitVideo ==
    /\ now = 0
    /\ CircuitIdle
    /\ CacheIdle
    /\ NormIdle
    /\ BoardIdle
    /\ PhotoIdle
    /\ PoolsIdle
    /\ ServiceIdle
    /\ LimiterIdle
    /\ CacheLenIdle
    /\ BoardLenIdle
    /\ DbPoolIdle
    /\ video \in [pc : {"ready"}, data : VideoData, result : {"None"},
                  legacy_result : {"None"}]

\* self._find_best_video_url(data) and find_best_video_url(data)
Hunt ==
    /\ video.pc = "ready"
    /\ video' = [video EXCEPT !.pc = "done",
                              !.result = FindBestVideoUrl(video.data, FALSE),
                              !.legacy_result = FindBestVideoUrl(video.data, TRUE)]
    /\ UNCHANGED notVideo

NextVideo == Hunt

SpecVideo == InitVideo /\ [][NextVideo]_vars

\* the dict nodes of a structure / of the items seq[1..n]
RECURSIVE DictNodes(_)
RECURSIVE DictNodesAll(_, _)
DictNodes(item) ==
    (IF item.type = "dict" THEN {[url |-> item.url, height |-> item.height]} ELSE {})
    \cup DictNodesAll(item.kids, Len(item.kids))

DictNodesAll(seq, n) ==
    IF n = 0 THEN {} ELSE DictNodesAll(seq, n - 1) \cup DictNodes(seq[n])

\* the candidates of a structure: its nodes with a direct file or manifest URL
Candidates(data) == { c \in DictNodes(data) : Priority(c.url) > 0 }

\* the height recorded for a candidate: its height field if it is a number
CandidateHeight(c) == IF c.height.kind = "int" THEN c.height.v ELSE 0

\* candidate d is better than candidate c under (priority, height)
Outranks(d, c) ==
    \/ Priority(d.url) > Priority(c.url)
    \/ /\ Priority(d.url) = Priority(c.url)
       /\ CandidateHeight(d) > CandidateHeight(c)

IsBestCandidate(url, data) ==
    IF Candidates(data) = {} THEN url = "None"
    ELSE \E c \in Candidates(data) :
            /\ c.url = url
            /\ \A d \in Candidates(data) : ~ Outranks(d, c)

\* C14: both hunters return the URL of a candidate that no other candidate of
\* the structure outranks under (priority, height), a direct file outranking
\* every manifest, and None when the structure has no candidate.
C14_ReturnsMaximalCandidate ==
    video.pc = "done" =>
        /\ IsBestCandidate(video.result, video.data)
        /\ IsBestCandidate(video.legacy_result, video.data)

(***************************************************************************)
(* get_photo_data (services/pinterest.py) and get_pinterest_photo_data     *)
(* (modules/pinterest.py): one caller asks for the same pin again and      *)
(* again, through either implementation.                                   *)
(***************************************************************************)
FetchPhotoKey == "_fetch_photo"

\* f"photo_data:{url}", for the one pin asked for
PhotoCacheKey == <<"photo_data", 0>>

\* the size segments an og:image reference may carry
PhotoSegments ==
    { Originals,
      [kind |-> "wonly", w |-> 236, h |-> 0],
      [kind |-> "wonly", w |-> 474, h |-> 0],
      [kind |-> "wonly", w |-> 564, h |-> 0],
      [kind |-> "wonly", w |-> 736, h |-> 0],
      [kind |-> "wxh", w |-> 236, h |-> 354] }

PhotoUrl(seg) ==
    [seg |-> seg, dir |-> "d1", name |-> "a", ext |-> ".jpg", query |-> ""]

\* the og:image tag of a document: none, one without content, one with a URL
MetaTags ==
    {NoTag, [tag |-> TRUE, content |-> FALSE, url |-> NoUrl]}
    \cup { [tag |-> TRUE, content |-> TRUE, url |-> PhotoUrl(seg)] :
             seg \in PhotoSegments }

\* statuses for which raise_for_status raises
ErrorStatuses == {403, 404, 500}

\* the document, or the failure of its request
PhotoResponses ==
    [kind : {"ok"}, status : {200}, meta_tag : MetaTags]
    \cup [kind : {"http"}, status : ErrorStatuses, meta_tag : {NoTag}]
    \cup [kind : {"neterror"}, status : {0}, meta_tag : {NoTag}]

\* image_url.replace('/236x/', '/originals/').replace('/736x/', '/originals/')
RewriteImage(u) ==
    IF u.seg.kind = "wonly" /\ u.seg.w \in {236, 736}
    THEN [u EXCEPT !.seg = Originals]
    ELSE u

\* (variant: every HTTP status error is reported as an API error)
StatusErrorAlwaysApi(status) == "PinterestAPI"

\* except httpx.HTTPStatusError: DeadLinkException for 404, else
\* PinterestAPIException
StatusError(status) == IF status = 404 THEN "DeadLink" ELSE "PinterestAPI"

photoEffects ==
    <<cache, cache_times, db_cache, failure_counts, last_failure_times>>

\* (variant: the failure is stored in both cache tiers)
PhotoFailedCachesError(p, error) ==
    LET result == [is_success |-> FALSE, media_url |-> NoUrl, media_type |-> "photo"]
    IN /\ photo' = [p EXCEPT !.pc = "idle", !.status = "error", !.error = error]
       /\ failure_counts' = RecordFailureCounts(failure_counts, FetchPhotoKey)
       /\ last_failure_times' = RecordFailureTimes(last_failure_times, FetchPhotoKey, now)
       /\ cache' = CacheSetData(cache, cache_times, PhotoCacheKey, result)
       /\ cache_times' = CacheSetTimes(cache, cache_times, PhotoCacheKey, now)
       /\ db_cache' = DbSet(db_cache, PhotoCacheKey, result, PinterestDataTtl, now, TRUE)

\* _fetch_photo raises; the error is none of the network errors that
\* retry_with_backoff retries, so it records one failure and re-raises
PhotoFailed(p, error) ==
    /\ photo' = [p EXCEPT !.pc = "idle", !.status = "error", !.error = error]
    /\ failure_counts' = RecordFailureCounts(failure_counts, FetchPhotoKey)
    /\ last_failure_times' = RecordFailureTimes(last_failure_times, FetchPhotoKey, now)
    /\ UNCHANGED <<cache, cache_times, db_cache>>

\* the result of _fetch_photo, its storing in both cache tiers, and
\* _record_success in retry_with_backoff
PhotoSucceeded(p, image_url) ==
    \E dbok \in BOOLEAN :
        LET result == [is_success |-> TRUE, media_url |-> image_url,
                       media_type |-> "photo"]
        IN /\ photo' = [p EXCEPT !.pc = "idle", !.status = "ok",
                                 !.media_url = image_url]
           /\ cache' = CacheSetData(cache, cache_times, PhotoCacheKey, result)
           /\ cache_times' = CacheSetTimes(cache, cache_times, PhotoCacheKey, now)
           /\ db_cache' = DbSet(db_cache, PhotoCacheKey, result, PhotoTtl, now, dbok)
           /\ failure_counts' = RecordSuccess(failure_counts, FetchPhotoKey)
           /\ last_failure_times' = RecordSuccess(last_failure_times, FetchPhotoKey)

\* get_photo_data up to its request: the lookup in both cache tiers, the
\* circuit check of retry_with_backoff, the request for the document
GetPhotoData(dbok) ==
    /\ photo.pc = "idle"
    /\ LET key == PhotoCacheKey
           ttl == PhotoLookupTtl
           fresh == CacheFresh(cache, cache_times, key, ttl, now)
           c1 == CacheAfterGet(cache, cache, cache_times, key, ttl, now)
           ct1 == CacheAfterGet(cache_times, cache, cache_times, key, ttl, now)
           p == [IdlePhoto EXCEPT !.impl = "service"]
       IN IF fresh
          THEN /\ photo' = [p EXCEPT !.status = "ok", !.from_cache = TRUE,
                                     !.media_url = cache[key].media_url]
               /\ UNCHANGED photoEffects
          ELSE IF DbHit(db_cache, key, now, dbok)
          THEN /\ photo' = [p EXCEPT !.status = "ok", !.from_cache = TRUE,
                                     !.media_url = db_cache[key].value.media_url]
               /\ cache' = CacheSetData(c1, ct1, key, db_cache[key].value)
               /\ cache_times' = CacheSetTimes(c1, ct1, key, now)
               /\ UNCHANGED <<db_cache, failure_counts, last_failure_times>>
          ELSE /\ cache' = c1
               /\ cache_times' = ct1
               /\ failure_counts' =
                      CircuitCheckCounts(failure_counts, last_failure_times,
                                         FetchPhotoKey, now)
               /\ UNCHANGED <<db_cache, last_failure_times>>
               /\ photo' =
                    IF IsCircuitOpen(failure_counts, last_failure_times,
                                     FetchPhotoKey, now)
                    THEN [p EXCEPT !.status = "error", !.error = "CircuitOpen"]
                    ELSE [p EXCEPT !.pc = "fetching"]
    /\ UNCHANGED notPhoto

\* the request of _fetch_photo completes: raise_for_status, the og:image tag,
\* the rewrite of its content, the result
FetchPhotoResponse(resp) ==
    /\ photo.pc = "fetching"
    /\ photo.impl = "service"
    /\ LET p == [photo EXCEPT !.http = resp.status, !.meta_tag = resp.meta_tag]
       IN IF resp.kind = "http" THEN PhotoFailed(p, StatusError(resp.status))
          ELSE IF resp.kind = "neterror" THEN PhotoFailed(p, "MediaProcessing")
          ELSE IF ~ resp.meta_tag.tag \/ ~ resp.meta_tag.content
          THEN PhotoFailed(p, "MediaProcessing")
          ELSE PhotoSucceeded(p, RewriteImage(resp.meta_tag.url))
    /\ UNCHANGED notPhoto

\* get_pinterest_photo_data up to its request
LegacyPhotoCall ==
    /\ photo.pc = "idle"
    /\ photo' = [IdlePhoto EXCEPT !.impl = "legacy", !.pc = "fetching"]
    /\ UNCHANGED <<photoEffects, notPhoto>>

\* its request completes: every exception and a missing tag give a failure
\* dict, a tag with content gives the rewritten URL
LegacyPhotoResponse(resp) ==
    /\ photo.pc = "fetching"
    /\ photo.impl = "legacy"
    /\ LET p == [photo EXCEPT !.pc = "idle", !.http = resp.status,
                              !.meta_tag = resp.meta_tag]
       IN photo' =
            IF resp.kind # "ok"
            THEN [p EXCEPT !.status = "error", !.error = "Terjadi kesalahan."]
            ELSE IF resp.meta_tag.tag /\ resp.meta_tag.content
            THEN [p EXCEPT !.status = "ok",
                           !.media_url = RewriteImage(resp.meta_tag.url)]
            ELSE [p EXCEPT !.status = "error",
                           !.error = "Tidak dapat menemukan data foto."]
    /\ UNCHANGED <<photoEffects, notPhoto>>

InitPhoto ==
    /\ now = 0
    /\ CircuitIdle
    /\ CacheIdle
    /\ NormIdle
    /\ BoardIdle
    /\ ExtraIdle

NextPhoto ==
    \/ \E dbok \in BOOLEAN : GetPhotoData(dbok)
    \/ \E resp \in PhotoResponses : FetchPhotoResponse(resp)
    \/ LegacyPhotoCall
    \/ \E resp \in PhotoResponses : LegacyPhotoResponse(resp)

SpecPhoto == InitPhoto /\ [][NextPhoto]_vars

C18_RewrittenToOriginals ==
    ( /\ photo.impl # "none"
      /\ photo.pc = "idle"
      /\ photo.http = 200
      /\ photo.meta_tag.tag /\ photo.meta_tag.content
      /\ photo.meta_tag.url.seg.kind = "wonly" )
        => /\ photo.status = "ok"
           /\ photo.media_url = [photo.meta_tag.url EXCEPT !.seg = Originals]

(***************************************************************************)
(* ConnectionPool and the page pool of BrowserManager: tasks take handles  *)
(* and give them back, each operation under the pool's lock.               *)
(***************************************************************************)
max_connections == 10           \* ConnectionPool(max_connections=10)

max_pages == 3                  \* BrowserManager._max_pages

MaxClientTasks == 11            \* tasks that may hold an HTTP client at once

MaxPageTasks == 4               \* tasks that may hold a page at once

\* get_client taking the idle client from the front of the list
GetClientFromFront ==
    /\ pools.clients_out < MaxClientTasks
    /\ pools' = IF pools.clients > 0
                THEN [pools EXCEPT !.clients = @ - 1, !.clients_out = @ + 1,
                                   !.last = "reused", !.client_op = "get",
                                   !.after = pools.client_op,
                                   !.handed = IF pools.tracked = 1
                                              THEN "same" ELSE "other",
                                   !.tracked = IF @ = 0 THEN 0 ELSE @ - 1]
                ELSE [pools EXCEPT !.clients_out = @ + 1, !.last = "created",
                                   !.client_op = "get",
                                   !.after = pools.client_op,
                                   !.handed = "new"]
    /\ UNCHANGED notPools

\* ConnectionPool.get_client: pop an idle client, or create a new one.  The
\* idle list _clients is its length (clients) and the position in it of the
\* client most recently passed to return_client (tracked, 0: not in the list);
\* self._clients.pop() takes the last element, so it hands out that client
\* exactly when tracked is the last position.  after is the client operation
\* before this one, handed what this call handed out.
GetClient ==
    /\ pools.clients_out < MaxClientTasks
    /\ pools' = IF pools.clients > 0
                THEN [pools EXCEPT !.clients = @ - 1, !.clients_out = @ + 1,
                                   !.last = "reused", !.client_op = "get",
                                   !.after = pools.client_op,
                                   !.handed = IF pools.tracked = pools.clients
                                              THEN "same" ELSE "other",
                                   !.tracked = IF @ = pools.clients THEN 0 ELSE @]
                ELSE [pools EXCEPT !.clients_out = @ + 1, !.last = "created",
                                   !.client_op = "get",
                                   !.after = pools.client_op,
                                   !.handed = "new"]
    /\ UNCHANGED notPools

\* ConnectionPool.return_client: keep the client if the list is not full,
\* close it otherwise
ReturnClient ==
    /\ pools.clients_out > 0
    /\ pools' = IF pools.clients < max_connections
                THEN [pools EXCEPT !.clients = @ + 1, !.clients_out = @ - 1,
                                   !.last = "pooled", !.client_op = "pooled",
                                   !.tracked = pools.clients + 1]
                ELSE [pools EXCEPT !.clients_out = @ - 1, !.last = "closed",
                                   !.client_op = "closed", !.tracked = 0]
    /\ UNCHANGED notPools

\* ConnectionPool.close_all
CloseAll ==
    /\ pools' = [pools EXCEPT !.clients = 0, !.last = "cleared",
                              !.client_op = "cleared", !.tracked = 0]
    /\ UNCHANGED notPools

\* BrowserManager.get_page: pop an idle page and return it if it still
\* evaluates, else create_page
GetPage(valid) ==
    /\ pools.pages_out < MaxPageTasks
    /\ pools' = IF pools.page_pool > 0
                THEN [pools EXCEPT !.page_pool = @ - 1, !.pages_out = @ + 1,
                                   !.last = IF valid THEN "reused" ELSE "created"]
                ELSE [pools EXCEPT !.pages_out = @ + 1, !.last = "created"]
    /\ UNCHANGED notPools

\* BrowserManager.create_page, called directly by the scrapers
CreatePage ==
    /\ pools.pages_out < MaxPageTasks
    /\ pools' = [pools EXCEPT !.pages_out = @ + 1, !.last = "created"]
    /\ UNCHANGED notPools

\* BrowserManager.return_page: keep the page if the list is not full and the
\* page can be blanked, close it otherwise
ReturnPage(blanked) ==
    /\ pools.pages_out > 0
    /\ pools' = IF pools.page_pool < max_pages /\ blanked
                THEN [pools EXCEPT !.page_pool = @ + 1, !.pages_out = @ - 1,
                                   !.last = "pooled"]
                ELSE [pools EXCEPT !.pages_out = @ - 1, !.last = "closed"]
    /\ UNCHANGED notPools

InitPools ==
    /\ now = 0
    /\ CircuitIdle
    /\ CacheIdle
    /\ NormIdle
    /\ BoardIdle
    /\ ExtraIdle

NextPools ==
    \/ GetClient
    \/ ReturnClient
    \/ CloseAll
    \/ \E valid \in BOOLEAN : GetPage(valid)
    \/ CreatePage
    \/ \E blanked \in BOOLEAN : ReturnPage(blanked)

SpecPools == InitPools /\ [][NextPools]_vars

\* C19: never more than max_connections HTTP clients and never more than
\* max_pages browser pages are handed out at once; a task that asks for a
\* handle at the bound gets none until one is returned.
C19_PoolsBounded ==
    /\ pools.clients_out <= max_connections
    /\ pools.pages_out <= max_pages

Initialized(s, launched) ==
    IF s.initialized \/ ~ launched THEN s
    ELSE [s EXCEPT !.browser = "open", !.initialized = TRUE]

\* BrowserManager.close: self._browser.close() if there is a browser;
\* _initialized is left as it is
Closed(s) == IF s.browser = "none" THEN s ELSE [s EXCEPT !.browser = "closed"]

\* async with pinterest_service: __aenter__ runs initialize, which raises if
\* the launch fails; then get_board_pins starts its HTTP requests
Enter(c, launched) ==
    /\ service.pc[c] = "idle"
    /\ LET s == Initialized(service, launched)
       IN service' =
            IF ~ s.initialized
            THEN [s EXCEPT !.result[c] = "error", !.lost_browser[c] = FALSE,
                           !.no_page[c] = FALSE]
            ELSE [s EXCEPT !.pc[c] = "fetching", !.result[c] = "none",
                           !.lost_browser[c] = FALSE, !.no_page[c] = FALSE]
    /\ UNCHANGED notService

\* the HTTP part of _fetch_board ends: with a result, with an error, or with
\* fewer than 10 URLs, and then _scrape_board_with_browser enters
\* BrowserManager() and calls create_page, which raises on a closed browser
HttpPart(c, outcome) ==
    /\ service.pc[c] = "fetching"
    /\ service' =
         IF outcome = "ok"
         THEN [service EXCEPT !.pc[c] = "leaving", !.result[c] = "ok"]
         ELSE IF outcome = "error"
         THEN [service EXCEPT !.pc[c] = "leaving", !.result[c] = "error"]
         ELSE IF service.browser = "open"
         THEN [service EXCEPT !.pc[c] = "scraping"]
         ELSE [service EXCEPT !.pc[c] = "leaving", !.result[c] = "error",
                              !.no_page[c] = TRUE]
    /\ UNCHANGED notService

\* the page operations of _scrape_board_with_browser end: they raise if the
\* browser was closed meanwhile; leaving the async with block closes the
\* browser
Scrape(c, found) ==
    /\ service.pc[c] = "scraping"
    /\ LET lost == service.browser # "open"
       IN service' =
            [Closed(service) EXCEPT
                !.pc[c] = "leaving",
                !.lost_browser[c] = lost,
                !.result[c] = IF ~ lost /\ found THEN "ok" ELSE "error"]
    /\ UNCHANGED notService

\* the wrapper leaves the async with block: PinterestService.close runs
\* close_all and BrowserManager.close
Leave(c) ==
    /\ service.pc[c] = "leaving"
    /\ service' = [Closed(service) EXCEPT !.pc[c] = "idle"]
    /\ UNCHANGED notService

InitService ==
    /\ now = 0
    /\ CircuitIdle
    /\ CacheIdle
    /\ NormIdle
    /\ BoardIdle
    /\ ExtraIdle

NextService ==
    \/ \E c \in Boards, launched \in BOOLEAN : Enter(c, launched)
    \/ \E c \in Boards, outcome \in {"ok", "error", "fallback"} : HttpPart(c, outcome)
    \/ \E c \in Boards, found \in BOOLEAN : Scrape(c, found)
    \/ \E c \in Boards : Leave(c)

SpecService == InitService /\ [][NextService]_vars

\* C20: while a board call is using the browser, no other call's completion
\* or failure closes it, and no call fails because the browser was closed
\* under its page.
C20_CallsIndependent ==
    \A c \in Boards :
        /\ service.pc[c] = "scraping" => service.browser = "open"
        /\ ~ service.lost_browser[c]

\* C36: every render of the browser fallback gets its page from an open
\* browser: the open browser is used, and a browser is launched when there is
\* none or when it has been closed.
C36_RenderGetsLiveSession ==
    \A c \in Boards : ~ service.no_page[c]

(***************************************************************************)
(* Board calls and photo calls of one service: they share the two cache    *)
(* tiers and the circuit state.                                            *)
(***************************************************************************)
\* (where only success and failure matter: a document with or without its
\* og:image tag, or a failed request)
SmallPhotoResponses ==
    { resp \in PhotoResponses :
        /\ resp.status \in {0, 200, 404}
        /\ resp.meta_tag.content => resp.meta_tag.url.seg = Originals }

InitFetch ==
    /\ now = 0
    /\ CircuitIdle
    /\ CacheIdle
    /\ NormIdle
    /\ ExtraIdle
    /\ board = [IdleBoard EXCEPT !.max_pins = PageSize]

NextFetch ==
    \/ \E dbok \in BOOLEAN : BoardCall(FALSE, dbok)
    \/ \E resp \in LandingResponses(FALSE, SmallDocs) : LandingResponse(resp)
    \/ \E resp \in PageResponses(board.bookmark, SmallPages) : PageResponse(resp)
    \/ \E res \in BrowserResults(SmallDocs) : BrowserResult(res)
    \/ \E dbok \in BOOLEAN : GetPhotoData(dbok)
    \/ \E resp \in SmallPhotoResponses : FetchPhotoResponse(resp)

SpecFetch == InitFetch /\ [][NextFetch]_vars

\* no key of the dict d2 is new or has a new value
NoWrite(d1, d2) == \A k \in DOMAIN d2 : k \in DOMAIN d1 /\ d2[k] = d1[k]

\* C21: every value in the memory cache and in the database cache is a
\* success result, and a step in which a board call or a photo call ends in an
\* error stores nothing in either tier.
C21_OnlySuccessCached ==
    /\ [](/\ \A k \in DOMAIN cache : cache[k].is_success
          /\ \A k \in DOMAIN db_cache : db_cache[k].value.is_success)
    /\ [][ ( \/ (board' # board /\ board'.pc = "idle" /\ board'.status = "error")
             \/ (photo' # photo /\ photo'.pc = "idle" /\ photo'.status = "error") )
             => (NoWrite(cache, cache') /\ NoWrite(db_cache, db_cache')) ]_vars

\* a board call has succeeded and a photo call has failed on a document
\* without og:image tag: both tiers hold the board's result and nothing else
C21_Witness ==
    /\ DOMAIN cache = {CacheKey(board.max_pins)}
    /\ DOMAIN db_cache = {CacheKey(board.max_pins)}
    /\ board.pc = "idle" /\ board.status = "ok" /\ ~ board.from_cache
    /\ photo.pc = "idle" /\ photo.status = "error" /\ photo.http = 200
    /\ photo.error = "MediaProcessing"

\* C24: the lifetime of a cached photo result is longer than the lifetime of a
\* cached board result in both tiers: in the memory cache, where it is the ttl
\* of the lookup, and in the database cache, where rows stored at the same
\* time (the clock of SpecFetch stands still) expire later for the photo.
C24_SingleAssetCachedLonger ==
    /\ (PhotoCacheKey \in DOMAIN cache /\ CacheKey(board.max_pins) \in DOMAIN cache)
          => PhotoLookupTtl > BoardLookupTtl
    /\ (PhotoCacheKey \in DOMAIN db_cache /\ CacheKey(board.max_pins) \in DOMAIN db_cache)
          => db_cache[PhotoCacheKey].expires_at
                > db_cache[CacheKey(board.max_pins)].expires_at

(***************************************************************************)
(* PinterestService._rate_limit_check for one endpoint, called by          *)
(* concurrent tasks.  Time is counted in quarters of a second.             *)
(***************************************************************************)
Second == 4                     \* 1.0 in _rate_limit_check, in quarters

MaxRateTime == 10               \* the clock stops advancing here

\* the call returns at time t
Released(l, t) == [l EXCEPT !.prev_released = l.released, !.released = t]

\* _rate_limit_check up to its await: current_time is read, and the task
\* sleeps if the endpoint's last time is less than a second back; without a
\* sleep the rest of the function runs at once
RateLimitCheck(t) ==
    /\ limiter.pc[t] = "idle"
    /\ LET time_since_last == now - limiter.last
       IN limiter' =
            IF limiter.last # Never /\ time_since_last < Second
            THEN [limiter EXCEPT !.pc[t] = "sleeping", !.current_time[t] = now,
                                 !.wake[t] = now + (Second - time_since_last)]
            ELSE Released([limiter EXCEPT !.last = now], now)
    /\ UNCHANGED <<now, notLimiter>>

\* asyncio.sleep ends: the time read before the sleep is stored and the call
\* returns
RateWake(t) ==
    /\ limiter.pc[t] = "sleeping"
    /\ now >= limiter.wake[t]
    /\ limiter' = Released([limiter EXCEPT !.pc[t] = "idle",
                                           !.last = limiter.current_time[t],
                                           !.current_time[t] = 0,
                                           !.wake[t] = 0],
                           now)
    /\ UNCHANGED <<now, notLimiter>>

\* a quarter of a second passes; a sleep that is over ends before time moves on
RateTick ==
    /\ now < MaxRateTime
    /\ \A t \in RateTasks : limiter.pc[t] = "sleeping" => now < limiter.wake[t]
    /\ now' = now + 1
    /\ UNCHANGED <<limiter, notLimiter>>

InitLimiter ==
    /\ now = 0
    /\ CircuitIdle
    /\ CacheIdle
    /\ NormIdle
    /\ BoardIdle
    /\ ExtraIdle

NextLimiter ==
    \/ \E t \in RateTasks : RateLimitCheck(t)
    \/ \E t \in RateTasks : RateWake(t)
    \/ RateTick

SpecLimiter == InitLimiter /\ [][NextLimiter]_vars

\* C25: any two consecutive returns of _rate_limit_check for the endpoint are
\* at least one second apart.
C25_ReleasesOneSecondApart ==
    limiter.prev_released # Never
        => limiter.released - limiter.prev_released >= Second

(***************************************************************************)
(* The size of CacheManager._cache.  A cache of max_cache_size entries is  *)
(* followed by its number of keys: set removes the EvictBatch oldest keys  *)
(* of a full cache and then stores its key, get deletes an expired key,    *)
(* clear empties the cache.                                                *)
(***************************************************************************)
\* len(self._cache) after set, with the size test made after the insertion
\* limit instead of at it
LenAfterSetLate(n, existing, oldest) ==
    LET evict == n > max_cache_size
        kept == IF evict THEN n - Min(EvictBatch, n) ELSE n
        present == existing /\ ~ (evict /\ oldest)
    IN IF present THEN kept ELSE kept + 1

\* len(self._cache) after set(url, data) on a cache of n keys: existing, the
\* key is in the cache; oldest, it is one of the EvictBatch oldest keys
LenAfterSet(n, existing, oldest) ==
    LET evict == n >= max_cache_size
        kept == IF evict THEN n - Min(EvictBatch, n) ELSE n
        present == existing /\ ~ (evict /\ oldest)
    IN IF present THEN kept ELSE kept + 1

\* CacheManager.set(url, data)
CmSetLen(existing, oldest) ==
    /\ existing => cache_len.len > 0
    /\ oldest => existing
    /\ cache_len' = [len |-> LenAfterSet(cache_len.len, existing, oldest),
                     before |-> cache_len.len,
                     op |-> IF existing THEN "set_existing" ELSE "set_new"]
    /\ UNCHANGED notCacheLen

\* CacheManager.get(url) of an expired key: del self._cache[key]
CmGetExpiredLen ==
    /\ cache_len.len > 0
    /\ cache_len' = [len |-> cache_len.len - 1, before |-> cache_len.len,
                     op |-> "get_expired"]
    /\ UNCHANGED notCacheLen

\* CacheManager.clear()
CmClearLen ==
    /\ cache_len' = [len |-> 0, before |-> cache_len.len, op |-> "clear"]
    /\ UNCHANGED notCacheLen

InitCacheLen ==
    /\ now = 0
    /\ CircuitIdle
    /\ CacheIdle
    /\ NormIdle
    /\ BoardIdle
    /\ ExtraIdle

NextCacheLen ==
    \/ \E existing, oldest \in BOOLEAN : CmSetLen(existing, oldest)
    \/ CmGetExpiredLen
    \/ CmClearLen

SpecCacheLen == InitCacheLen /\ [][NextCacheLen]_vars

\* C27: after any sequence of set calls, for new keys or for keys already in
\* the cache, the number of cached entries never exceeds max_cache_size.
C27_SizeNeverExceedsMax == cache_len.len <= max_cache_size

\* a set of a new key found the cache full, and left it with the entries that
\* survived the eviction and the new one
C27_Witness ==
    /\ cache_len.op = "set_new"
    /\ cache_len.before = max_cache_size
    /\ cache_len.len = max_cache_size - EvictBatch + 1

(***************************************************************************)
(* The tiers of a board call, followed by len(all_image_urls): documents   *)
(* and pages with ten and more unique URLs are out of reach of the         *)
(* enumeration of list(all_image_urls), so here a document is the number   *)
(* of unique URLs it yields and a page the number of URLs it adds.         *)
(***************************************************************************)
MaxBoardLen == 11               \* most unique URLs of a board

MaxPageLen == 2                 \* most new URLs of one page

LenMaxPins == {50, 100}         \* values of max_pins

\* _fetch_board raises, or the legacy function returns is_success False
LenFailed(b) == [b EXCEPT !.pc = "idle", !.status = "error"]

\* the empty check and the result
LenComplete(b) ==
    IF b.unique = 0 THEN LenFailed(b) ELSE [b EXCEPT !.pc = "idle", !.status = "ok"]

\* after the pagination: the browser scraper runs if len(all_image_urls) < 10
LenAfterLoop(b) ==
    IF FallbackNeeded(b.unique)
    THEN [b EXCEPT !.pc = "fallback", !.fallbacks = @ + 1, !.yielded = b.unique]
    ELSE LenComplete([b EXCEPT !.yielded = b.unique])

\* the head of the while loop of _fetch_board
LenLoopHead(b) ==
    IF b.chain > 0 /\ b.page_count < b.max_pins \div PageSize
    THEN [b EXCEPT !.pc = "paging"]
    ELSE LenAfterLoop(b)

\* get_board_pins up to the end of the landing request: n unique URLs in the
\* document, chain pages behind its bookmark (0: no board id or no bookmark)
LenBoardCall(m, kind, n, chain) ==
    /\ board_len.pc = "idle"
    /\ LET b == [IdleBoardLen EXCEPT !.impl = "service", !.max_pins = m,
                                     !.unique = n, !.chain = chain]
       IN board_len' = IF kind = "ok" THEN LenLoopHead(b)
                       ELSE LenFailed([IdleBoardLen EXCEPT !.impl = "service",
                                                           !.max_pins = m])
    /\ UNCHANGED notBoardLen

\* a page request completes: k URLs that were not in all_image_urls
LenPageResponse(kind, k) ==
    /\ board_len.pc = "paging"
    /\ board_len.impl = "service"
    /\ board_len.unique + k <= MaxBoardLen
    /\ board_len' =
         IF kind = "error" THEN LenFailed(board_len)
         ELSE IF kind = "non200" THEN LenAfterLoop(board_len)
         ELSE LenLoopHead([board_len EXCEPT !.unique = @ + k, !.chain = @ - 1,
                                            !.page_count = @ + 1])
    /\ UNCHANGED notBoardLen

\* _scrape_board_with_browser returns k URLs that were not in all_image_urls,
\* or raises
LenBrowserResult(kind, k) ==
    /\ board_len.pc = "fallback"
    /\ board_len.impl = "service"
    /\ board_len.unique + k <= MaxBoardLen
    /\ board_len' = IF kind = "ok"
                    THEN LenComplete([board_len EXCEPT !.unique = @ + k])
                    ELSE LenFailed(board_len)
    /\ UNCHANGED notBoardLen

\* the return that follows the legacy loop
LenLegacyReturn(b) ==
    LenComplete([b EXCEPT !.yielded = b.unique])

\* the head of the legacy while loop
LenLegacyLoopHead(b) ==
    IF b.chain > 0 THEN [b EXCEPT !.pc = "paging"] ELSE LenLegacyReturn(b)

\* the legacy function up to the end of the landing request: the document doc
\* through its filter; without board id or bookmark (ids) the URLs kept are
\* returned, and the Playwright fallback runs if there is none
LenLegacyCall(kind, doc, ids, chain) ==
    /\ board_len.pc = "idle"
    /\ ids <=> chain > 0
    /\ LET b == [IdleBoardLen EXCEPT
                   !.impl = "legacy", !.chain = chain,
                   !.unique = Len(LegacyKept(<<>>, doc, Len(doc)))]
       IN board_len' =
            IF kind # "ok" THEN LenFailed([IdleBoardLen EXCEPT !.impl = "legacy"])
            ELSE IF ~ ids
            THEN (IF b.unique > 0 THEN LenLegacyReturn(b)
                  ELSE [b EXCEPT !.pc = "fallback", !.fallbacks = @ + 1,
                                 !.yielded = b.unique])
            ELSE LenLegacyLoopHead(b)
    /\ UNCHANGED notBoardLen

\* a legacy page request completes: the pins through the filter
LenLegacyPageResponse(kind, pins) ==
    /\ board_len.pc = "paging"
    /\ board_len.impl = "legacy"
    /\ board_len' =
         IF kind = "error" THEN LenFailed(board_len)
         ELSE IF kind = "non200" THEN LenLegacyReturn(board_len)
         ELSE LenLegacyLoopHead(
                [board_len EXCEPT
                   !.unique = @ + Len(LegacyAddPins(<<>>, pins, Len(pins))),
                   !.chain = @ - 1])
    /\ UNCHANGED notBoardLen

\* the Playwright fallback completes: the rendered document through the filter
LenLegacyBrowserResult(kind, doc) ==
    /\ board_len.pc = "fallback"
    /\ board_len.impl = "legacy"
    /\ board_len' =
         IF kind = "ok"
         THEN LenComplete([board_len EXCEPT
                             !.unique = Len(LegacyKept(<<>>, doc, Len(doc)))])
         ELSE LenFailed(board_len)
    /\ UNCHANGED notBoardLen

InitBoardLen ==
    /\ now = 0
    /\ CircuitIdle
    /\ CacheIdle
    /\ NormIdle
    /\ BoardIdle
    /\ ExtraIdle

NextBoardLen ==
    \/ \E m \in LenMaxPins, kind \in {"ok", "error"}, n \in 0..MaxBoardLen,
          chain \in 0..ChainLen : LenBoardCall(m, kind, n, chain)
    \/ \E kind \in {"ok", "non200", "error"}, k \in 0..MaxPageLen :
          LenPageResponse(kind, k)
    \/ \E kind \in {"ok", "error"}, k \in 0..MaxPageLen : LenBrowserResult(kind, k)
    \/ \E kind \in {"ok", "error"}, doc \in Docs, ids \in BOOLEAN,
          chain \in 0..ChainLen : LenLegacyCall(kind, doc, ids, chain)
    \/ \E kind \in {"ok", "non200", "error"}, pins \in Pages :
          LenLegacyPageResponse(kind, pins)
    \/ \E kind \in {"ok", "error"}, doc \in Docs : LenLegacyBrowserResult(kind, doc)

SpecBoardLen == InitBoardLen /\ [][NextBoardLen]_vars

\* C33: the browser fallback runs only in a call whose landing document and
\* pagination together yielded fewer than 10 unique URLs, never in a call
\* where they yielded 10 or more.
C33_FallbackOnlyBelowFloor ==
    /\ board_len.fallbacks > 0
          => (board_len.yielded # Never /\ board_len.yielded < FallbackFloor)
    /\ (board_len.yielded # Never /\ board_len.yielded >= FallbackFloor)
          => (board_len.fallbacks = 0 /\ board_len.pc = "idle")

\* a call of the service whose pagination ended with exactly 10 unique URLs
\* returned them without a run of the browser
C33_Witness ==
    /\ board_len.impl = "service"
    /\ board_len.pc = "idle" /\ board_len.status = "ok"
    /\ board_len.page_count > 0
    /\ board_len.yielded = FallbackFloor
    /\ board_len.fallbacks = 0

(***************************************************************************)
(* The circuit breaker of the one pinterest_service, shared by concurrent  *)
(* callers: callers 1 and 2 ask get_board_pins for two boards, caller 3    *)
(* asks get_photo_data for a photo.  The wrapped functions turn every      *)
(* error into an exception that is not retried.                            *)
(***************************************************************************)
Callers == {1, 2, 3}

\* the function a caller hands to retry_with_backoff; its URL is the caller's
FuncOf(p) == IF p = 3 THEN FetchPhotoKey ELSE FetchBoardKey

\* (variant: the URL is part of the key)
ServiceCircuitKeyPerUrl(func_name, url) == IF url = 1 THEN func_name ELSE "k1"

\* _get_circuit_key(func.__name__, *args) as the service calls it:
\* retry_with_backoff(_fetch_board) passes no args, so the key is the name of
\* the function and the hash of "()", whatever URL the closure holds
ServiceCircuitKey(func_name, url) == func_name

InitShared ==
    /\ now = 0
    /\ failure_counts = EmptyDict
    /\ last_failure_times = EmptyDict
    /\ calls = [p \in Callers |-> IdleCall]
    /\ streak = [k \in Keys \cup {FetchBoardKey, FetchPhotoKey} |-> 0]
    /\ CacheIdle
    /\ NormIdle
    /\ BoardIdle
    /\ ExtraIdle

NextShared ==
    \/ \E p \in Callers :
          Call(p, ServiceCircuitKey(FuncOf(p), p), MAX_RETRY_ATTEMPTS)
    \/ \E p \in Callers, r \in Results : CompleteSuccess(p, r)
    \/ \E p \in Callers : CompleteOtherError(p)
    \/ \E d \in {circuit_breaker_timeout} : Tick(d)

SpecShared == InitShared /\ [][NextShared]_vars

\* C35: a caller that enters retry_with_backoff while the circuit of its
\* function is open is rejected without an invocation, whatever URL it asks
\* for; and no step of a caller changes the failure count or the last failure
\* time recorded for another function.
C35_SharedPerOperation ==
    [][\A p \in DOMAIN calls :
          /\ ( /\ calls[p].pc = "idle" /\ calls'[p] # calls[p]
               /\ IsCircuitOpen(failure_counts, last_failure_times, FuncOf(p), now) )
                => (calls'[p].outcome = "circuit_open" /\ calls'[p].invoked = 0)
          /\ calls'[p] # calls[p]
                => \A k \in (DOMAIN failure_counts \cup DOMAIN failure_counts'
                               \cup DOMAIN last_failure_times
                               \cup DOMAIN last_failure_times') \ {FuncOf(p)} :
                       /\ DictGet(failure_counts', k, Never)
                              = DictGet(failure_counts, k, Never)
                       /\ DictGet(last_failure_times', k, Never)
                              = DictGet(last_failure_times, k, Never)
      ]_vars

\* the failures of board calls have opened the circuit of _fetch_board, the
\* caller of the second board was rejected while the first caller is rejected
\* too, and the circuit of _fetch_photo, with one failure, is not open
C35_Witness ==
    /\ IsCircuitOpen(failure_counts, last_failure_times, FetchBoardKey, now)
    /\ calls[1].outcome = "circuit_open" /\ calls[1].invoked = 0
    /\ calls[2].outcome = "circuit_open" /\ calls[2].invoked = 0
    /\ DictGet(failure_counts, FetchPhotoKey, 0) = 1
    /\ calls[3].pc = "running"

(***************************************************************************)
(* BrowserManager.initialize called by concurrent tasks on the singleton:  *)
(* the test outside the lock, the wait for the lock, the test under the    *)
(* lock, the start of Playwright and the launch (two awaits), the release   *)
(* of the lock.                                                            *)
(***************************************************************************)
\* initialize returns
InitializeReturn(s, c, result) == [s EXCEPT !.pc[c] = "idle", !.result[c] = result]

\* initialize up to its first await: if self._initialized: return
InitializeCall(c) ==
    /\ service.pc[c] = "idle"
    /\ service' = IF service.initialized
                  THEN InitializeReturn(service, c, "ok")
                  ELSE [service EXCEPT !.pc[c] = "locking", !.result[c] = "none"]
    /\ UNCHANGED notService

\* (variant: no second test once the lock is held)
InitializeLockedNoRecheck(c) ==
    /\ service.pc[c] = "locking"
    /\ service.lock = 0
    /\ service' = [service EXCEPT !.pc[c] = "starting", !.lock = c]
    /\ UNCHANGED notService

\* async with self._lock is entered: if self._initialized: return (the lock is
\* released), else Playwright is started
InitializeLocked(c) ==
    /\ service.pc[c] = "locking"
    /\ service.lock = 0
    /\ service' = IF service.initialized
                  THEN InitializeReturn(service, c, "ok")
                  ELSE [service EXCEPT !.pc[c] = "starting", !.lock = c]
    /\ UNCHANGED notService

\* async_playwright().start() ends: the launch of the browser begins, or
\* BrowserException is raised and the lock released
InitializeStarted(c, started) ==
    /\ service.pc[c] = "starting"
    /\ service' = IF started THEN [service EXCEPT !.pc[c] = "launching"]
                  ELSE InitializeReturn([service EXCEPT !.lock = 0], c, "error")
    /\ UNCHANGED notService

\* chromium.launch(...) ends: the browser is stored and _initialized set, or
\* BrowserException is raised; the lock is released
InitializeLaunched(c, launched) ==
    /\ service.pc[c] = "launching"
    /\ service' =
         IF launched
         THEN InitializeReturn([service EXCEPT !.browser = "open",
                                               !.initialized = TRUE,
                                               !.launches = @ + 1, !.lock = 0],
                               c, "ok")
         ELSE InitializeReturn([service EXCEPT !.lock = 0], c, "error")
    /\ UNCHANGED notService

InitInitialize ==
    /\ now = 0
    /\ CircuitIdle
    /\ CacheIdle
    /\ NormIdle
    /\ BoardIdle
    /\ ExtraIdle

NextInitialize ==
    \/ \E c \in Boards : InitializeCall(c)
    \/ \E c \in Boards : InitializeLocked(c)
    \/ \E c \in Boards, started \in BOOLEAN : InitializeStarted(c, started)
    \/ \E c \in Boards, launched \in BOOLEAN : InitializeLaunched(c, launched)

SpecInitialize == InitInitialize /\ [][NextInitialize]_vars

\* C37: under any interleaving of initialize calls the browser is launched at
\* most once, and a call that returns without error does so with the browser
\* open and _initialized set.
C37_LaunchedOnce ==
    /\ [](service.launches <= 1)
    /\ [][\A c \in Boards :
            (service.pc[c] # "idle" /\ service'.pc[c] = "idle"
                /\ service'.result[c] = "ok")
               => (service'.browser = "open" /\ service'.initialized)
        ]_vars
    /\ [][\A c \in Boards :
            (service.pc[c] = "idle" /\ service'.result[c] = "ok"
                /\ service' # service /\ service'.pc[c] = "idle")
               => (service'.browser = "open" /\ service'.initialized)
        ]_vars

\* one task launched the browser after another task's launch had failed, and
\* a third task that waited for the lock returned without launching
C37_Witness ==
    /\ service.launches = 1
    /\ service.browser = "open"
    /\ \E a, b, c \in Boards :
          /\ a # b /\ b # c /\ a # c
          /\ service.result[a] = "error"
          /\ service.result[b] = "ok"
          /\ service.result[c] = "ok"
          /\ service.pc[a] = "idle" /\ service.pc[b] = "idle" /\ service.pc[c] = "idle"

(***************************************************************************)
(* PinterestService._make_request run by concurrent tasks that may be      *)
(* cancelled at any await, next to close_all, which holds the pool's lock  *)
(* while it awaits the closing of the idle clients.                        *)
(***************************************************************************)
MaxRequestClients == 4          \* clients checked out before the requests stop

\* get_client under the lock: an idle client is popped or a client created
ClientTaken(p) ==
    IF p.clients > 0
    THEN [p EXCEPT !.clients = @ - 1, !.clients_out = @ + 1, !.last = "reused"]
    ELSE [p EXCEPT !.clients_out = @ + 1, !.last = "created"]

\* return_client under the lock: the client is appended, or closed
ClientGivenBack(p) ==
    IF p.clients < max_connections
    THEN [p EXCEPT !.clients = @ + 1, !.clients_out = @ - 1, !.last = "pooled"]
    ELSE [p EXCEPT !.clients_out = @ - 1, !.last = "closed"]

\* _make_request after _rate_limit_check: get_client enters async with
\* self._lock, which does not suspend when the lock is free
MakeRequest(t) ==
    /\ pools.req[t] = "idle"
    /\ pools.clients_out < MaxRequestClients
    /\ pools' = IF pools.lock = "free"
                THEN [ClientTaken(pools) EXCEPT !.req[t] = "requesting",
                                                !.exit[t] = "none"]
                ELSE [pools EXCEPT !.req[t] = "getting", !.exit[t] = "none"]
    /\ UNCHANGED notPools

\* the lock is released to a task waiting in get_client
ClientGot(t) ==
    /\ pools.req[t] = "getting"
    /\ pools.lock = "free"
    /\ pools' = [ClientTaken(pools) EXCEPT !.req[t] = "requesting"]
    /\ UNCHANGED notPools

\* the finally block: return_client enters async with self._lock and gives
\* the client back, or waits for the lock
Finally(p, t, how) ==
    IF p.lock = "free"
    THEN [ClientGivenBack(p) EXCEPT !.req[t] = "idle", !.exit[t] = how]
    ELSE [p EXCEPT !.req[t] = "returning", !.exit[t] = how]

\* client.request and raise_for_status end: with a response, with
\* HTTPStatusError, or with another exception
RequestDone(t, how) ==
    /\ pools.req[t] = "requesting"
    /\ pools' = Finally(pools, t, how)
    /\ UNCHANGED notPools

\* the lock is released to a task waiting in return_client
ClientReturned(t) ==
    /\ pools.req[t] = "returning"
    /\ pools.lock = "free"
    /\ pools' = [ClientGivenBack(pools) EXCEPT !.req[t] = "idle"]
    /\ UNCHANGED notPools

\* task.cancel(): CancelledError is raised at the await the task is
\* suspended in: the wait for the lock in get_client (nothing is taken), the
\* request (the finally block runs), the wait for the lock in return_client
\* (the block is left with the client neither appended nor closed)
Cancel(t) ==
    /\ pools.req[t] \in {"getting", "requesting", "returning"}
    /\ pools' =
         IF pools.req[t] = "getting"
         THEN [pools EXCEPT !.req[t] = "idle", !.exit[t] = "cancelled"]
         ELSE IF pools.req[t] = "requesting"
         THEN Finally(pools, t, "cancelled")
         ELSE [pools EXCEPT !.req[t] = "idle", !.exit[t] = "cancelled"]
    /\ UNCHANGED notPools

\* close_all takes the lock and awaits client.aclose() of an idle client
CloseAllBegin ==
    /\ pools.lock = "free"
    /\ pools.clients > 0
    /\ pools' = [pools EXCEPT !.lock = "close_all"]
    /\ UNCHANGED notPools

\* close_all: the clients are closed, the list is cleared, the lock released
CloseAllEnd ==
    /\ pools.lock = "close_all"
    /\ pools' = [pools EXCEPT !.clients = 0, !.last = "cleared", !.lock = "free"]
    /\ UNCHANGED notPools

InitRequests ==
    /\ now = 0
    /\ CircuitIdle
    /\ CacheIdle
    /\ NormIdle
    /\ BoardIdle
    /\ ExtraIdle

NextRequests ==
    \/ \E t \in RequestTasks : MakeRequest(t)
    \/ \E t \in RequestTasks : ClientGot(t)
    \/ \E t \in RequestTasks, how \in {"response", "status", "exception"} :
          RequestDone(t, how)
    \/ \E t \in RequestTasks : ClientReturned(t)
    \/ \E t \in RequestTasks : Cancel(t)
    \/ CloseAllBegin
    \/ CloseAllEnd

SpecRequests == InitRequests /\ [][NextRequests]_vars

\* C38: whenever no task is inside _make_request, no client is checked out:
\* every request has given its client back, however it ended.
C38_EveryExitReturnsClient ==
    (\A t \in RequestTasks : pools.req[t] = "idle") => pools.clients_out = 0

(***************************************************************************)
(* database.ConnectionPool: get_connection and return_connection of the    *)
(* tasks that share one pool.  A step runs from one await to the next; the *)
(* lock of an async with is taken without suspension when it is free.      *)
(***************************************************************************)
\* pool_size of the pool
DbPoolSize == 1

\* the body of get_connection once the lock is free, up to its first await:
\* a pooled connection is popped and health-checked, else a connection is
\* created below the limit, else the task sleeps; the lock is held throughout
DbEnter(p, t) ==
    IF p.pool > 0
    THEN [p EXCEPT !.lock = t, !.pool = @ - 1, !.pc[t] = "check"]
    ELSE IF p.created < DbPoolSize * 2
    THEN [p EXCEPT !.lock = t, !.pc[t] = "create"]
    ELSE [p EXCEPT !.lock = t, !.pc[t] = "sleep", !.slept[t] = TRUE]

\* get_connection returns a connection: every async with of the task is left
DbGot(p, t) ==
    [p EXCEPT !.lock = 0, !.pc[t] = "has", !.slept[t] = FALSE]

\* get_connection is called: async with self._lock
GetConnection(t) ==
    /\ db_pool.pc[t] = "idle"
    /\ db_pool' = IF db_pool.lock = 0 THEN DbEnter(db_pool, t)
                  ELSE [db_pool EXCEPT !.pc[t] = "want"]
    /\ UNCHANGED notDbPool

\* the lock is released to a task waiting in get_connection
DbLockGranted(t) ==
    /\ db_pool.pc[t] = "want"
    /\ db_pool.lock = 0
    /\ db_pool' = DbEnter(db_pool, t)
    /\ UNCHANGED notDbPool

\* await conn.execute("SELECT 1") is over: the connection is returned, or
\* it raised and the connection is being closed
HealthChecked(t, healthy) ==
    /\ db_pool.pc[t] = "check"
    /\ db_pool' = IF healthy THEN DbGot(db_pool, t)
                  ELSE [db_pool EXCEPT !.pc[t] = "bad_close"]
    /\ UNCHANGED notDbPool

\* await conn.close() of the unhealthy connection is over: fall through to
\* the creation of a connection
BadClosed(t) ==
    /\ db_pool.pc[t] = "bad_close"
    /\ db_pool' =
         IF db_pool.created < DbPoolSize * 2
         THEN [db_pool EXCEPT !.pc[t] = "create"]
         ELSE [db_pool EXCEPT !.pc[t] = "sleep", !.slept[t] = TRUE]
    /\ UNCHANGED notDbPool

\* await self._create_connection() is over
Created(t) ==
    /\ db_pool.pc[t] = "create"
    /\ db_pool' = DbGot([db_pool EXCEPT !.created = @ + 1], t)
    /\ UNCHANGED notDbPool

\* await asyncio.sleep(0.1) is over: return await self.get_connection(),
\* called inside the async with of the sleeping call
SleepDone(t) ==
    /\ db_pool.pc[t] = "sleep"
    /\ db_pool' = IF db_pool.lock = 0 THEN DbEnter(db_pool, t)
                  ELSE [db_pool EXCEPT !.pc[t] = "want"]
    /\ UNCHANGED notDbPool

\* the body of return_connection once the lock is free
DbGiveBack(p, t) ==
    IF p.pool < DbPoolSize
    THEN [p EXCEPT !.pool = @ + 1, !.pc[t] = "idle"]
    ELSE [p EXCEPT !.lock = t, !.pc[t] = "ret_close"]

\* return_connection is called by a task that holds a connection
ReturnConnection(t) ==
    /\ db_pool.pc[t] = "has"
    /\ db_pool' = IF db_pool.lock = 0 THEN DbGiveBack(db_pool, t)
                  ELSE [db_pool EXCEPT !.pc[t] = "ret_want"]
    /\ UNCHANGED notDbPool

\* the lock is released to a task waiting in return_connection
DbReturnGranted(t) ==
    /\ db_pool.pc[t] = "ret_want"
    /\ db_pool.lock = 0
    /\ db_pool' = DbGiveBack(db_pool, t)
    /\ UNCHANGED notDbPool

\* await conn.close() of a connection the full pool does not take is over
ReturnClosed(t) ==
    /\ db_pool.pc[t] = "ret_close"
    /\ db_pool' = [db_pool EXCEPT !.created = @ - 1, !.lock = 0,
                                  !.pc[t] = "idle"]
    /\ UNCHANGED notDbPool

InitDbPool ==
    /\ now = 0
    /\ CircuitIdle
    /\ CacheIdle
    /\ NormIdle
    /\ BoardIdle
    /\ ExtraIdle

\* the steps of a task that the event loop runs whenever they can run
DbStep(t) ==
    \/ DbLockGranted(t)
    \/ \E healthy \in BOOLEAN : HealthChecked(t, healthy)
    \/ BadClosed(t)
    \/ Created(t)
    \/ SleepDone(t)
    \/ ReturnConnection(t)
    \/ DbReturnGranted(t)
    \/ ReturnClosed(t)

NextDbPool ==
    \/ \E t \in DbTasks : GetConnection(t)
    \/ \E t \in DbTasks : DbLockGranted(t)
    \/ \E t \in DbTasks, healthy \in BOOLEAN : HealthChecked(t, healthy)
    \/ \E t \in DbTasks : BadClosed(t)
    \/ \E t \in DbTasks : Created(t)
    \/ \E t \in DbTasks : SleepDone(t)
    \/ \E t \in DbTasks : ReturnConnection(t)
    \/ \E t \in DbTasks : DbReturnGranted(t)
    \/ \E t \in DbTasks : ReturnClosed(t)

SpecDbPool == InitDbPool /\ [][NextDbPool]_vars

\* every task that holds a connection returns it, every awaited step ends,
\* and a lock that is free again and again is granted to each waiting task
FairSpecDbPool ==
    /\ SpecDbPool
    /\ \A t \in DbTasks : SF_vars(DbStep(t))

\* C39: a get_connection call that has found the limit of 2 * pool_size
\* created connections reached, and waits, eventually returns a connection,
\* the tasks holding connections returning them: the pool never deadlocks.
C39_WaiterEventuallyServed ==
    \A t \in DbTasks : db_pool.slept[t] ~> (db_pool.pc[t] = "has")

====
